---- MODULE Spec2Model ----
(***************************************************************************)
(* A model of the omuchat server core:                                     *)
(*   - CachedTable  (omuserver/extension/table/cached_table.py)            *)
(*   - RegistryExtension (omuserver/extension/registry/registry_extension) *)
(*   - AiohttpSession (omuserver/session/aiohttp_session.py)               *)
(* Coroutines are modelled as tasks whose steps are the code between two   *)
(* awaits; an await that may suspend is a step boundary.                   *)
(***************************************************************************)
EXTENDS Integers, Sequences, FiniteSets, TLC

(***************************************************************************)
(* Bounds of the model.                                                    *)
(***************************************************************************)
MaxOps == 3
MaxCacheSize == 2
MaxItems == 2
MaxDisconnectCalls == 2
MaxFrames == 2
MaxSends == 2
MaxDepth == 4
MaxCallbacks == 2
MaxEchoes == 2
MaxChunks == 3
MaxChunkSize == 2

Sessions == {"s1", "s2", "s3"}
Keys == {"k1", "k2", "k3"}
Vals == {1, 2}
Tasks == {"t1", "t2"}

\* Python's None / Optional[T]: <<>> is None, <<x>> is a value x.
None == <<>>
Some(x) == <<x>>
IsNone(o) == o = <<>>
Value(o) == o[1]

Min(a, b) == IF a < b THEN a ELSE b
Range(s) == {s[i] : i \in DOMAIN s}

(***************************************************************************)
(* Python dict (insertion ordered): a sequence of <<key, value>> pairs     *)
(* with pairwise distinct keys.                                            *)
(***************************************************************************)
DictKeys(d) == {d[i][1] : i \in DOMAIN d}
DictHas(d, k) == k \in DictKeys(d)
DictGet(d, k) == (CHOOSE i \in DOMAIN d : d[i][1] = k)
DictVal(d, k) == d[DictGet(d, k)][2]
KeySeq(d) == [i \in DOMAIN d |-> d[i][1]]
ValSeq(d) == [i \in DOMAIN d |-> d[i][2]]
\* d[k] = v : an existing key keeps its position, a new key goes last
DictSet(d, k, v) ==
    IF DictHas(d, k)
    THEN [i \in DOMAIN d |-> IF d[i][1] = k THEN <<k, v>> ELSE d[i]]
    ELSE Append(d, <<k, v>>)
\* del d[k]
DictDel(d, k) == SelectSeq(d, LAMBDA e : e[1] # k)
DictDelAll(d, ks) == SelectSeq(d, LAMBDA e : e[1] \notin Range(ks))
RECURSIVE DictUpdate(_, _)
DictUpdate(d, items) ==
    IF items = <<>> THEN d
    ELSE DictUpdate(DictSet(d, items[1][1], items[1][2]), Tail(items))
IsDict(d) == \A i, j \in DOMAIN d : d[i][1] = d[j][1] => i = j

\* all dicts over the given keys and values with at most n entries
RECURSIVE DictsUpTo(_, _, _)
DictsUpTo(ks, vs, n) ==
    IF n = 0 THEN {<<>>}
    ELSE LET shorter == DictsUpTo(ks, vs, n - 1)
         IN shorter \cup
            {Append(d, <<k, v>>) : d \in {x \in shorter : Len(x) = n - 1},
                                   k \in ks, v \in vs}
ItemDicts(ks, vs, n) == {d \in DictsUpTo(ks, vs, n) : IsDict(d) /\ d # <<>>}

\* all lists of pairwise distinct keys with 1..n entries
RECURSIVE KeyListsUpTo(_, _)
KeyListsUpTo(ks, n) ==
    IF n = 0 THEN {<<>>}
    ELSE LET shorter == KeyListsUpTo(ks, n - 1)
         IN shorter \cup
            {Append(l, k) : l \in {x \in shorter : Len(x) = n - 1}, k \in ks}
KeyLists(ks, n) ==
    {l \in KeyListsUpTo(ks, n) :
        l # <<>> /\ \A i, j \in DOMAIN l : l[i] = l[j] => i = j}

(***************************************************************************)
(* Session.app.key(): s1 and s3 are two connections of the same app.       *)
(***************************************************************************)
AppKey(s) == IF s = "s2" THEN "b" ELSE "a"

VARIABLES
    \* CachedTable fields
    listeners,        \* _listeners: list of SessionTableListener (by session)
    sessions,         \* _sessions: keys of the session -> handler dict
    proxy_sessions,   \* _proxy_sessions: dict app key -> session
    changed,          \* _changed
    proxy_id,         \* _proxy_id
    save_task,        \* _save_task: None or a task handle
    cache,            \* _cache: dict key -> bytes
    cache_size,       \* _cache_size: None or int
    adapter,          \* the adapter's stored items: dict key -> bytes
    \* environment of the table
    closed,           \* Session.closed of every session
    task,             \* the table coroutines in progress
    savers,           \* the save_task() coroutines made by create_task
    ops,              \* handler invocations so far
    n_add,            \* add() calls so far
    n_persist,        \* adapter.set_all calls made for an add so far
    n_mark,           \* mark_changed() calls so far
    n_store,          \* adapter.store() calls so far
    added,            \* keys of the single-item adds, in call order
    outstanding,      \* proxy packets held by a session, and those dropped
    listen_order,     \* sessions in the order of their TABLE_PROXY_LISTEN
    cache_log,        \* the last change of the cache content and its announcements
    \* RegistryExtension
    registries,       \* registries: id -> ServerRegistry (or absent)
    storage,          \* the persisted value of each registry
    grants,           \* permissions granted to each session
    resp,             \* the last registry handler call and its outcome
    recipients,       \* sessions sent an update packet by the last handler call
    boot,             \* server start: phase, _startup_registries, _on_start's position
    \* AiohttpSession
    sock,             \* socket state of each connection
    loop,             \* position of listen()
    disc,             \* disconnect() coroutines in progress
    emitted,          \* number of `disconnected` emissions
    packets,          \* packets received: packet.emit tasks created by listen()
    hs,               \* AiohttpSession.create: position, first frame, authenticate calls
    frames,           \* frames written to each socket
    io,               \* last received message, outcome and number of send() calls
    client            \* a client's TableImpl: proxy callbacks, handler, packets sent

tableVars == <<listeners, sessions, proxy_sessions, changed, proxy_id, save_task,
               cache, cache_size, adapter, closed, task, savers, ops>>
\* history variables: they record what happened and influence nothing
histVars == <<n_add, n_persist, n_mark, n_store, added, outstanding, listen_order,
              cache_log>>
regVars == <<registries, storage, grants, resp, recipients, boot>>
sessVars == <<sock, loop, disc, emitted, packets, hs, frames, io>>
clientVars == <<client>>
vars == <<tableVars, histVars, regVars, sessVars, clientVars>>

(***************************************************************************)
(* Table coroutines.  pc is the await the coroutine is suspended in:       *)
(*   "idle"      no coroutine in this slot                                 *)
(*   "read"      awaiting adapter.get / adapter.get_all                    *)
(*   "removing"  awaiting adapter.remove_all                               *)
(*   "notify"    awaiting adapter.set_all / adapter.clear / a listener;    *)
(*               i is the index of the next listener of the for loop       *)
(*   "done" / "error"  returned / raised                                   *)
(*   "failed"          left by an exception of the adapter                 *)
(* trace is the list of calls the coroutine has made.                      *)
(***************************************************************************)
IdleTask ==
    [pc |-> "idle", id |-> 0, op |-> "-", who |-> "-", key |-> 0, items |-> <<>>,
     keys |-> <<>>, i |-> 0, data |-> <<>>, trace |-> <<>>, att |-> <<>>]
\* the record of a coroutine that starts now; id numbers the invocations
NewTask == [IdleTask EXCEPT !.id = ops + 1]
Ev(call, who, arg, key) == [call |-> call, who |-> who, arg |-> arg, key |-> key]
Free(t) == task[t].pc \in {"idle", "done", "error", "failed"}
Quiet == \A t \in Tasks : Free(t)

\* adapter.get(key) and adapter.get_all(keys): missing keys are omitted
adapter_get(ad, k) == IF DictHas(ad, k) THEN Some(DictVal(ad, k)) ELSE None
adapter_get_all(ad, ks) ==
    LET present == SelectSeq(ks, LAMBDA k : DictHas(ad, k))
    IN [i \in DOMAIN present |-> <<present[i], DictVal(ad, present[i])>>]
\* adapter.set_all(items), adapter.remove_all(keys)
adapter_set_all(ad, items) == DictUpdate(ad, items)
adapter_remove_all(ad, ks) == DictDelAll(ad, ks)

(***************************************************************************)
(* CachedTable.update_cache: the insertion loop, and the listener calls.   *)
(***************************************************************************)
CacheEnabled(size) == ~IsNone(size) /\ Value(size) > 0
\* Faulty variant of the insertion loop: evicts the newest entry instead of
\* the oldest one.
RECURSIVE CacheInsertLoopEvictsNewest(_, _, _)
CacheInsertLoopEvictsNewest(c, n, items) ==
    IF items = <<>> THEN c
    ELSE LET c1 == DictSet(c, items[1][1], items[1][2])
             c2 == IF Len(c1) > n THEN SubSeq(c1, 1, Len(c1) - 1) ELSE c1
         IN CacheInsertLoopEvictsNewest(c2, n, Tail(items))
RECURSIVE CacheInsertLoop(_, _, _)
CacheInsertLoop(c, n, items) ==
    IF items = <<>> THEN c
    ELSE LET c1 == DictSet(c, items[1][1], items[1][2])
             c2 == IF Len(c1) > n THEN Tail(c1) ELSE c1
         IN CacheInsertLoop(c2, n, Tail(items))
update_cache(c, size, items) ==
    IF ~CacheEnabled(size) THEN c ELSE CacheInsertLoop(c, Value(size), items)
update_cache_calls(c, size, items) ==
    IF ~CacheEnabled(size) THEN <<>>
    ELSE LET c2 == update_cache(c, size, items)
         IN [i \in DOMAIN listeners |-> Ev("on_cache_update", listeners[i], c2, 0)]

(***************************************************************************)
(* CachedTable.mark_changed                                                *)
(***************************************************************************)
StartsSaveTask == IsNone(save_task)
mark_changed ==
    /\ changed' = TRUE
    /\ IF StartsSaveTask
       THEN /\ savers' = Append(savers, "ready")
            /\ save_task' = Some(Len(savers) + 1)
       ELSE UNCHANGED <<save_task, savers>>

(***************************************************************************)
(* `for listener in self._listeners: await listener.on_xxx(...)` followed  *)
(* by the rest of the coroutine.  A listener of a closed session returns   *)
(* without suspending; a listener of an open session sends, and the send   *)
(* may suspend.  The list iterator is an index into the live list.         *)
(***************************************************************************)
RECURSIVE FirstOpen(_, _)
FirstOpen(ls, i) ==
    IF i > Len(ls) THEN i
    ELSE IF closed[ls[i]] THEN FirstOpen(ls, i + 1) ELSE i
ListenerCall(op) ==
    CASE op = "add" -> "on_add"
      [] op = "proxy" -> "on_add"
      [] op = "update" -> "on_update"
      [] op = "remove" -> "on_remove"
      [] OTHER -> "on_clear"
ListenerArg(tk) ==
    CASE tk.op = "remove" -> tk.data
      [] tk.op = "clear" -> <<>>
      [] OTHER -> tk.items
ListenerCalls(tk, from, to) ==
    [n \in 1..(to - from + 1) |->
        Ev(ListenerCall(tk.op), listeners[from + n - 1], ListenerArg(tk), 0)]

\* the code after the listener loop
Finish(t, tr, c) ==
    LET tk == task[t]
    IN /\ mark_changed
       /\ CASE tk.op \in {"add", "update", "proxy"} ->
                 /\ cache' = update_cache(c, cache_size, tk.items)
                 /\ task' = [task EXCEPT ![t].pc = "done",
                               ![t].trace = tr \o <<Ev("update_cache", "-", tk.items, 0)>>
                                   \o update_cache_calls(c, cache_size, tk.items)
                                   \o <<Ev("mark_changed", "-", <<>>, 0)>>]
            [] tk.op = "clear" ->
                 /\ cache' = <<>>
                 /\ task' = [task EXCEPT ![t].pc = "done",
                               ![t].trace = tr \o <<Ev("cache_clear", "-", <<>>, 0),
                                                    Ev("mark_changed", "-", <<>>, 0)>>]
            [] OTHER ->
                 /\ cache' = c
                 /\ task' = [task EXCEPT ![t].pc = "done",
                               ![t].trace = tr \o <<Ev("mark_changed", "-", <<>>, 0)>>]

NotifyFrom(t, tr, i, c) ==
    LET tk == task[t]
        j == FirstOpen(listeners, i)
        last == Min(j, Len(listeners))
        tr2 == tr \o ListenerCalls(tk, i, last)
    IN IF j <= Len(listeners)
       THEN /\ task' = [task EXCEPT ![t].pc = "notify", ![t].i = j + 1, ![t].trace = tr2]
            /\ cache' = c
            /\ UNCHANGED <<changed, save_task, savers>>
       ELSE Finish(t, tr2, c)

\* resume after adapter.set_all / adapter.clear / a listener's send
Notify(t) ==
    /\ task[t].pc = "notify"
    /\ NotifyFrom(t, task[t].trace, task[t].i, cache)
    /\ UNCHANGED <<listeners, sessions, proxy_sessions, proxy_id, cache_size, adapter,
                   closed, ops>>

Begin(t, op) ==
    /\ Free(t)
    /\ ops < MaxOps
    /\ ops' = ops + 1

(***************************************************************************)
(* CachedTable.send_proxy_event / add / proxy                              *)
(***************************************************************************)
\* Faulty variant of the chain lookup: always the head of the chain.
ProxyTargetHead(chain, index) == chain[1][2]
ProxyTarget(chain, index) == chain[index][2]
send_proxy_event(t, items) ==
    LET session == ProxyTarget(proxy_sessions, 1)
    IN /\ proxy_id' = proxy_id + 1
       /\ task' = [task EXCEPT ![t] =
            [NewTask EXCEPT !.op = "add", !.items = items, !.att = listeners,
                !.pc = IF closed[session] THEN "error" ELSE "done",
                !.trace = IF closed[session] THEN <<>>
                          ELSE <<Ev("send_proxy", session, items, proxy_id + 1)>>]]

add(t, items) ==
    /\ Begin(t, "add")
    /\ IF Len(proxy_sessions) > 0
       THEN /\ send_proxy_event(t, items)
            /\ UNCHANGED <<adapter>>
       ELSE /\ adapter' = adapter_set_all(adapter, items)
            /\ task' = [task EXCEPT ![t] =
                 [NewTask EXCEPT !.op = "add", !.items = items, !.att = listeners,
                     !.pc = "notify", !.i = 1,
                     !.trace = <<Ev("set_all", "-", items, 0)>>]]
            /\ UNCHANGED proxy_id
    /\ UNCHANGED <<listeners, sessions, proxy_sessions, changed, save_task, cache,
                   cache_size, closed, savers>>

ProxyIndex(chain, session_key) == CHOOSE i \in DOMAIN chain : chain[i][1] = session_key
\* Faulty variant of proxy: a session outside the chain is treated as its
\* last member.
proxy_unchecked(t, session, key, items) ==
    /\ Begin(t, "proxy")
    /\ LET base == [NewTask EXCEPT !.op = "proxy", !.who = session, !.key = key,
                        !.items = items, !.att = listeners]
           index == IF AppKey(session) \in DictKeys(proxy_sessions)
                    THEN ProxyIndex(proxy_sessions, AppKey(session))
                    ELSE Len(proxy_sessions)
       IN IF index = Len(proxy_sessions)
          THEN /\ adapter' = adapter_set_all(adapter, items)
               /\ task' = [task EXCEPT ![t] =
                    [base EXCEPT !.pc = "notify", !.i = 1,
                        !.trace = <<Ev("set_all", "-", items, 0)>>]]
          ELSE LET next == ProxyTarget(proxy_sessions, index + 1)
               IN /\ task' = [task EXCEPT ![t] =
                       [base EXCEPT
                           !.pc = IF closed[next] THEN "error" ELSE "done",
                           !.trace = IF closed[next] THEN <<>>
                                     ELSE <<Ev("send_proxy", next, items, proxy_id)>>]]
                  /\ UNCHANGED <<adapter>>
    /\ UNCHANGED <<listeners, sessions, proxy_sessions, changed, proxy_id, save_task,
                   cache, cache_size, closed, savers>>
proxy(t, session, key, items) ==
    /\ Begin(t, "proxy")
    /\ LET base == [NewTask EXCEPT !.op = "proxy", !.who = session, !.key = key,
                        !.items = items, !.att = listeners]
       IN IF AppKey(session) \notin DictKeys(proxy_sessions)
          THEN /\ task' = [task EXCEPT ![t] = [base EXCEPT !.pc = "error"]]
               /\ UNCHANGED <<adapter>>
          ELSE LET index == ProxyIndex(proxy_sessions, AppKey(session))
               IN IF index = Len(proxy_sessions)
                  THEN /\ adapter' = adapter_set_all(adapter, items)
                                  /\ task' = [task EXCEPT ![t] =
                            [base EXCEPT !.pc = "notify", !.i = 1,
                                !.trace = <<Ev("set_all", "-", items, 0)>>]]
                  ELSE LET next == ProxyTarget(proxy_sessions, index + 1)
                       IN /\ task' = [task EXCEPT ![t] =
                               [base EXCEPT
                                   !.pc = IF closed[next] THEN "error" ELSE "done",
                                   !.trace = IF closed[next] THEN <<>>
                                             ELSE <<Ev("send_proxy", next, items, proxy_id)>>]]
                          /\ UNCHANGED <<adapter>>
    /\ UNCHANGED <<listeners, sessions, proxy_sessions, changed, proxy_id, save_task,
                   cache, cache_size, closed, savers>>

(***************************************************************************)
(* CachedTable.update / remove / clear                                     *)
(***************************************************************************)
\* Faulty variant of update: diverted through the proxy chain as add is.
update_diverted(t, items) ==
    /\ Begin(t, "update")
    /\ IF Len(proxy_sessions) > 0
       THEN /\ proxy_id' = proxy_id + 1
            /\ task' = [task EXCEPT ![t] =
                 [NewTask EXCEPT !.op = "update", !.items = items, !.att = listeners,
                     !.pc = "done",
                     !.trace = <<Ev("send_proxy", ProxyTarget(proxy_sessions, 1), items,
                                    proxy_id + 1)>>]]
            /\ UNCHANGED adapter
       ELSE /\ adapter' = adapter_set_all(adapter, items)
            /\ task' = [task EXCEPT ![t] =
                 [NewTask EXCEPT !.op = "update", !.items = items, !.att = listeners,
                     !.pc = "notify", !.i = 1,
                     !.trace = <<Ev("set_all", "-", items, 0)>>]]
            /\ UNCHANGED proxy_id
    /\ UNCHANGED <<listeners, sessions, proxy_sessions, changed, save_task, cache,
                   cache_size, closed, savers>>
update(t, items) ==
    /\ Begin(t, "update")
    /\ adapter' = adapter_set_all(adapter, items)
    /\ task' = [task EXCEPT ![t] =
         [NewTask EXCEPT !.op = "update", !.items = items, !.att = listeners,
             !.pc = "notify", !.i = 1,
             !.trace = <<Ev("set_all", "-", items, 0)>>]]
    /\ UNCHANGED <<listeners, sessions, proxy_sessions, changed, proxy_id, save_task,
                   cache, cache_size, closed, savers>>

remove(t, keys) ==
    /\ Begin(t, "remove")
    /\ task' = [task EXCEPT ![t] =
         [NewTask EXCEPT !.op = "remove", !.keys = keys, !.att = listeners,
             !.pc = "read", !.data = adapter_get_all(adapter, keys),
             !.trace = <<Ev("get_all", "-", keys, 0)>>]]
    /\ UNCHANGED <<listeners, sessions, proxy_sessions, changed, proxy_id, save_task,
                   cache, cache_size, adapter, closed, savers>>

\* remove, resumed after adapter.get_all: calls adapter.remove_all
RemoveRead(t) ==
    /\ task[t].pc = "read"
    /\ task[t].op = "remove"
    /\ adapter' = adapter_remove_all(adapter, task[t].keys)
    /\ task' = [task EXCEPT ![t].pc = "removing",
                  ![t].trace = @ \o <<Ev("remove_all", "-", task[t].keys, 0)>>]
    /\ UNCHANGED <<listeners, sessions, proxy_sessions, changed, proxy_id, save_task,
                   cache, cache_size, closed, savers, ops>>

\* remove, resumed after adapter.remove_all: drops the keys from the cache,
\* then runs the listener loop
RemoveDone(t) ==
    /\ task[t].pc = "removing"
    /\ NotifyFrom(t, task[t].trace, 1, DictDelAll(cache, task[t].keys))
    /\ UNCHANGED <<listeners, sessions, proxy_sessions, proxy_id, cache_size, adapter,
                   closed, ops>>

clear(t) ==
    /\ Begin(t, "clear")
    /\ adapter' = <<>>
    /\ task' = [task EXCEPT ![t] =
         [NewTask EXCEPT !.op = "clear", !.att = listeners, !.pc = "notify", !.i = 1,
             !.trace = <<Ev("clear", "-", <<>>, 0)>>]]
    /\ UNCHANGED <<listeners, sessions, proxy_sessions, changed, proxy_id, save_task,
                   cache, cache_size, closed, savers>>

(***************************************************************************)
(* CachedTable.get / get_all                                               *)
(***************************************************************************)
get(t, key) ==
    /\ Begin(t, "get")
    /\ task' = [task EXCEPT ![t] =
         IF DictHas(cache, key)
         THEN [NewTask EXCEPT !.op = "get", !.keys = <<key>>, !.pc = "done",
                  !.data = Some(DictVal(cache, key))]
         ELSE [NewTask EXCEPT !.op = "get", !.keys = <<key>>, !.pc = "read",
                  !.data = adapter_get(adapter, key),
                  !.trace = <<Ev("get", "-", <<key>>, 0)>>]]
    /\ UNCHANGED <<listeners, sessions, proxy_sessions, changed, proxy_id, save_task,
                   cache, cache_size, adapter, closed, savers>>

\* get, resumed after adapter.get
GetRead(t) ==
    /\ task[t].pc = "read"
    /\ task[t].op = "get"
    /\ LET data == task[t].data
           items == <<<<task[t].keys[1], Value(data)>>>>
       IN IF IsNone(data)
          THEN /\ task' = [task EXCEPT ![t].pc = "done"]
               /\ UNCHANGED cache
          ELSE /\ cache' = update_cache(cache, cache_size, items)
               /\ task' = [task EXCEPT ![t].pc = "done", ![t].items = items,
                             ![t].trace = @ \o <<Ev("update_cache", "-", items, 0)>>
                                 \o update_cache_calls(cache, cache_size, items)]
    /\ UNCHANGED <<listeners, sessions, proxy_sessions, changed, proxy_id, save_task,
                   cache_size, adapter, closed, savers, ops>>

CacheHits(c, keys) ==
    LET hit == SelectSeq(keys, LAMBDA k : DictHas(c, k))
    IN [i \in DOMAIN hit |-> <<hit[i], DictVal(c, hit[i])>>]
\* Faulty variant of the miss list: every key is asked of the adapter.
CacheMissesAll(c, keys) == keys
CacheMisses(c, keys) == SelectSeq(keys, LAMBDA k : ~DictHas(c, k))
get_all(t, keys) ==
    /\ Begin(t, "get_all")
    /\ LET items == CacheHits(cache, keys)
           rest == CacheMisses(cache, keys)
       IN task' = [task EXCEPT ![t] =
            IF Len(rest) = 0
            THEN [NewTask EXCEPT !.op = "get_all", !.keys = keys, !.items = items,
                     !.pc = "done"]
            ELSE [NewTask EXCEPT !.op = "get_all", !.keys = keys, !.items = items,
                     !.pc = "read", !.data = adapter_get_all(adapter, rest),
                     !.trace = <<Ev("get_all", "-", rest, 0)>>]]
    /\ UNCHANGED <<listeners, sessions, proxy_sessions, changed, proxy_id, save_task,
                   cache, cache_size, adapter, closed, savers>>

\* get_all, resumed after adapter.get_all
GetAllRead(t) ==
    /\ task[t].pc = "read"
    /\ task[t].op = "get_all"
    /\ LET items == DictUpdate(task[t].items, task[t].data)
       IN /\ cache' = update_cache(cache, cache_size, items)
          /\ task' = [task EXCEPT ![t].pc = "done", ![t].items = items,
                        ![t].trace = @ \o <<Ev("update_cache", "-", items, 0)>>
                            \o update_cache_calls(cache, cache_size, items)]
    /\ UNCHANGED <<listeners, sessions, proxy_sessions, changed, proxy_id, save_task,
                   cache_size, adapter, closed, savers, ops>>

\* CachedTable.size: returns len(self._cache); the result is kept in `key`
\* (`size` names a parameter elsewhere)
table_size(t) ==
    /\ Begin(t, "size")
    /\ task' = [task EXCEPT ![t] =
         [NewTask EXCEPT !.op = "size", !.pc = "done", !.key = Len(cache)]]
    /\ UNCHANGED <<listeners, sessions, proxy_sessions, changed, proxy_id, save_task,
                   cache, cache_size, adapter, closed, savers>>

(***************************************************************************)
(* CachedTable.fetch_items / iterate.  The adapter's fetch_items takes two *)
(* counts and a key: the cursor is an exclusive anchor, `before` and       *)
(* `after` are the numbers of items wanted on each side of it in insertion *)
(* order; without a cursor `after` counts from the beginning and `before`  *)
(* from the end.  An absent count asks for no item on its side.            *)
(***************************************************************************)
Count(n) == IF IsNone(n) THEN 0 ELSE Value(n)
adapter_fetch_items(ad, before, after, cursor) ==
    LET n == Len(ad)
        picked ==
            IF IsNone(cursor)
            THEN {i \in 1..n : i <= Count(after) \/ i > n - Count(before)}
            ELSE IF DictHas(ad, Value(cursor))
                 THEN LET p == DictGet(ad, Value(cursor))
                      IN {i \in 1..n : \/ i < p /\ i >= p - Count(before)
                                       \/ i > p /\ i <= p + Count(after)}
                 ELSE {}
    IN SelectSeq(ad, LAMBDA e : DictGet(ad, e[1]) \in picked)

\* what an adapter can do with a key where it expects the count `after`:
\* raise, or go on as with some count or with none
Typed == [raises |-> FALSE, count |-> None]
IllTyped ==
    {[raises |-> TRUE, count |-> None]}
        \cup {[raises |-> FALSE, count |-> n] : n \in {None} \cup {Some(m) : m \in 0..MaxItems}}
\* iterate: `cursor = None`, and the first
\* `await self.fetch_items(self._cache_size, cursor)`: the two arguments
\* are fetch_items' `before` and `after`.  `data` is the cursor, `keys`
\* the keys of the items yielded, `i` the number of fetches.
iterate(t) ==
    /\ Begin(t, "iterate")
    /\ task' = [task EXCEPT ![t] =
         [NewTask EXCEPT !.op = "iterate", !.pc = "fetch", !.data = None, !.i = 1,
             !.trace = <<Ev("fetch_items", "-", <<cache_size, None, None>>, 0)>>]]
    /\ UNCHANGED <<listeners, sessions, proxy_sessions, changed, proxy_id, save_task,
                   cache, cache_size, adapter, closed, savers>>
\* iterate, resumed after fetch_items: an empty chunk ends the loop, else
\* the items are yielded, the cursor becomes the last key and the next
\* fetch is called
IterateFetched(t, as_after) ==
    /\ task[t].pc = "fetch"
    /\ task[t].op = "iterate"
    /\ LET tk == task[t]
           call == tk.trace[Len(tk.trace)].arg
           typed == IsNone(call[2])
           items == adapter_fetch_items(adapter, call[1],
                                        IF typed THEN None ELSE as_after.count, call[3])
       IN /\ as_after \in (IF typed THEN {Typed} ELSE IllTyped)
          /\ IF as_after.raises
             THEN task' = [task EXCEPT ![t].pc = "failed"]
             ELSE IF Len(items) = 0
             THEN task' = [task EXCEPT ![t].pc = "done"]
             ELSE /\ tk.i < MaxChunks
                  /\ LET cursor == Some(items[Len(items)][1])
                     IN task' = [task EXCEPT
                           ![t].keys = @ \o KeySeq(items),
                           ![t].data = cursor,
                           ![t].i = @ + 1,
                           ![t].trace = Append(@, Ev("fetch_items", "-",
                                                     <<cache_size, cursor, None>>, 0))]
    /\ UNCHANGED <<listeners, sessions, proxy_sessions, changed, proxy_id, save_task,
                   cache, cache_size, adapter, closed, savers, ops>>

(***************************************************************************)
(* CachedTable.set_config / set_cache_size / attach_session /              *)
(* detach_session / attach_proxy_session, and a session's socket closing   *)
(***************************************************************************)
set_config(size) ==
    /\ cache_size' = size
    /\ UNCHANGED <<listeners, sessions, proxy_sessions, changed, proxy_id, save_task,
                   cache, adapter, closed, task, savers, ops>>

set_cache_size(size) ==
    /\ cache_size' = Some(size)
    /\ UNCHANGED <<listeners, sessions, proxy_sessions, changed, proxy_id, save_task,
                   cache, adapter, closed, task, savers, ops>>

attach_session(session) ==
    /\ ~closed[session]
    /\ IF session \in sessions
       THEN UNCHANGED <<sessions, listeners>>
       ELSE /\ sessions' = sessions \cup {session}
            /\ listeners' = Append(listeners, session)
    /\ UNCHANGED <<proxy_sessions, changed, proxy_id, save_task, cache, cache_size,
                   adapter, closed, task, savers, ops>>

\* `session in self._proxy_sessions` looks the session up among the app keys
detach_session(session) ==
    /\ proxy_sessions' = IF session \in DictKeys(proxy_sessions)
                         THEN DictDel(proxy_sessions, AppKey(session))
                         ELSE proxy_sessions
    /\ IF session \in sessions
       THEN /\ sessions' = sessions \ {session}
            /\ listeners' = SelectSeq(listeners, LAMBDA l : l # session)
       ELSE UNCHANGED <<sessions, listeners>>

\* the `disconnected` event of a session that attach_session subscribed
handle_disconnection(session) ==
    /\ closed[session]
    /\ session \in sessions
    /\ detach_session(session)
    /\ UNCHANGED <<changed, proxy_id, save_task, cache, cache_size, adapter, closed,
                   task, savers, ops>>

attach_proxy_session(session) ==
    /\ ~closed[session]
    /\ proxy_sessions' = DictSet(proxy_sessions, AppKey(session), session)
    /\ UNCHANGED <<listeners, sessions, changed, proxy_id, save_task, cache,
                   cache_size, adapter, closed, task, savers, ops>>

CloseSocket(session) ==
    /\ ~closed[session]
    /\ closed' = [closed EXCEPT ![session] = TRUE]
    /\ UNCHANGED <<listeners, sessions, proxy_sessions, changed, proxy_id, save_task,
                   cache, cache_size, adapter, task, savers, ops>>

(***************************************************************************)
(* CachedTable.save_task and CachedTable.store                             *)
(*   "ready"     created by create_task, not yet run                       *)
(*   "storing"   inside store(), awaiting adapter.store()                  *)
(*   "sleeping"  awaiting asyncio.sleep(30)                                *)
(*   "exited"    the while loop has ended                                  *)
(***************************************************************************)
\* Faulty variant of the loop: store() is called with the flag still set.
SaveLoopKeepsFlag(n) ==
    /\ n \in DOMAIN savers
    /\ savers[n] \in {"ready", "sleeping"}
    /\ savers' = [savers EXCEPT ![n] = IF changed THEN "storing" ELSE "exited"]
    /\ UNCHANGED <<listeners, sessions, proxy_sessions, changed, proxy_id, save_task,
                   cache, cache_size, adapter, closed, task, ops>>
\* `while self._changed:` evaluated at the start and after every sleep
SaveLoop(n) ==
    /\ n \in DOMAIN savers
    /\ savers[n] \in {"ready", "sleeping"}
    /\ IF changed
       THEN /\ changed' = FALSE
            /\ savers' = [savers EXCEPT ![n] = "storing"]
       ELSE /\ savers' = [savers EXCEPT ![n] = "exited"]
            /\ UNCHANGED changed
    /\ UNCHANGED <<listeners, sessions, proxy_sessions, proxy_id, save_task, cache,
                   cache_size, adapter, closed, task, ops>>

\* adapter.store() returns; the task goes to sleep
SaveStored(n) ==
    /\ n \in DOMAIN savers
    /\ savers[n] = "storing"
    /\ savers' = [savers EXCEPT ![n] = "sleeping"]
    /\ UNCHANGED <<listeners, sessions, proxy_sessions, changed, proxy_id, save_task,
                   cache, cache_size, adapter, closed, task, ops>>

(***************************************************************************)
(* Adapter failures.  An adapter call that raises leaves the coroutine     *)
(* that made it: nothing after the call runs.                              *)
(***************************************************************************)
\* the coroutine is called and its first adapter call raises
Raises(t, op, who, key, items, keys) ==
    /\ Begin(t, op)
    /\ task' = [task EXCEPT ![t] =
         [NewTask EXCEPT !.op = op, !.who = who, !.key = key, !.items = items,
             !.keys = keys, !.att = listeners, !.pc = "failed"]]
    /\ UNCHANGED <<listeners, sessions, proxy_sessions, changed, proxy_id, save_task,
                   cache, cache_size, adapter, closed, savers>>

\* add: adapter.set_all raises
add_fails(t, items) ==
    /\ Len(proxy_sessions) = 0
    /\ Raises(t, "add", "-", 0, items, <<>>)
\* proxy, echo of the last proxy: adapter.set_all raises
proxy_fails(t, session, key, items) ==
    /\ AppKey(session) \in DictKeys(proxy_sessions)
    /\ ProxyIndex(proxy_sessions, AppKey(session)) = Len(proxy_sessions)
    /\ Raises(t, "proxy", session, key, items, <<>>)
\* update: adapter.set_all raises
update_fails(t, items) == Raises(t, "update", "-", 0, items, <<>>)
\* remove: adapter.get_all raises
remove_fails(t, keys) == Raises(t, "remove", "-", 0, <<>>, keys)
\* clear: adapter.clear raises
clear_fails(t) == Raises(t, "clear", "-", 0, <<>>, <<>>)
\* remove, resumed after adapter.get_all: adapter.remove_all raises
RemoveReadFails(t) ==
    /\ task[t].pc = "read"
    /\ task[t].op = "remove"
    /\ task' = [task EXCEPT ![t].pc = "failed"]
    /\ UNCHANGED <<listeners, sessions, proxy_sessions, changed, proxy_id, save_task,
                   cache, cache_size, adapter, closed, savers, ops>>
\* store: adapter.store() raises, and the exception ends the save task
StoreFails(n) ==
    /\ n \in DOMAIN savers
    /\ savers[n] = "storing"
    /\ savers' = [savers EXCEPT ![n] = "failed"]
    /\ UNCHANGED <<listeners, sessions, proxy_sessions, changed, proxy_id, save_task,
                   cache, cache_size, adapter, closed, task, ops>>

(***************************************************************************)
(* Identifiers are <<namespace, segment, ...>>.                            *)
(***************************************************************************)
is_subpart_of(id, parent) ==
    /\ Len(id) >= Len(parent)
    /\ SubSeq(id, 1, Len(parent)) = parent

(***************************************************************************)
(* RegistryExtension.  Two sessions of two apps, two registries (one       *)
(* under each app's id) and three permission identifiers.                  *)
(***************************************************************************)
RegSessions == {"r1", "r2"}
AppId(session) == IF session = "r1" THEN <<"x", "svc">> ELSE <<"o", "app">>
RegIds == {<<"x", "svc", "data">>, <<"o", "app", "reg">>}
RegVals == {1, 2}
PermAny == <<"p", "any">>
PermWrite == <<"p", "any", "w">>
PermSvc == <<"x", "svc", "perm">>
GrantSets == {{}, {PermAny}, {PermWrite}}
NoPermissions == [all |-> None, read |-> None, write |-> None]
PermissionChoices ==
    {NoPermissions,
     [all |-> Some(PermAny), read |-> None, write |-> None],
     [all |-> None, read |-> None, write |-> Some(PermWrite)],
     [all |-> None, read |-> Some(PermAny), write |-> Some(PermSvc)]}

\* PermissionExtension.has_permission
has_permission(session, permission) ==
    \/ \E g \in grants[session] : is_subpart_of(permission, g)
    \/ is_subpart_of(permission, AppId(session))

\* ServerRegistry(server, id) followed by load(): the stored value
NewRegistry(id) ==
    [permissions |-> NoPermissions, data |-> storage[id], sessions |-> {}, loaded |-> TRUE]
Exists(regs, id) == ~IsNone(regs[id])
\* RegistryExtension.get: the registries after the call
RegistriesAfterGet(id) ==
    IF Exists(registries, id) THEN registries
    ELSE [registries EXCEPT ![id] = Some(NewRegistry(id))]
Registry(regs, id) == Value(regs[id])

\* the permission fields a handler asks for
ReadFields(permissions) == <<permissions.all, permissions.read>>
WriteFields(permissions) == <<permissions.all, permissions.write>>
\* Faulty variants of check_permission: one that lets an unset permission
\* field pass, one without the owner's shortcut.
check_permission_unfiltered(id, require_permissions, session) ==
    \/ is_subpart_of(id, AppId(session))
    \/ \E i \in DOMAIN require_permissions :
          \/ IsNone(require_permissions[i])
          \/ has_permission(session, Value(require_permissions[i]))
check_permission_no_owner(id, require_permissions, session) ==
    \E i \in DOMAIN require_permissions :
       /\ ~IsNone(require_permissions[i])
       /\ has_permission(session, Value(require_permissions[i]))

\* RegistryExtension.check_permission: TRUE when it returns, FALSE when it
\* raises PermissionDenied
check_permission(id, require_permissions, session) ==
    \/ is_subpart_of(id, AppId(session))
    \/ \E i \in DOMAIN require_permissions :
          /\ ~IsNone(require_permissions[i])
          /\ has_permission(session, Value(require_permissions[i]))

Resp(op, session, id, result) ==
    [op |-> op, session |-> session, id |-> id, result |-> result, arg |-> <<>>]
\* a handler call with the payload of its packet
RespOf(op, session, id, result, arg) ==
    [Resp(op, session, id, result) EXCEPT !.arg = <<arg>>]

\* Faulty variant of the owner test of handle_register: anyone may register.
MayRegisterAnyone(id, session) == TRUE
\* handle_register: registry.id.is_subpart_of(session.app.id)
MayRegister(id, session) == is_subpart_of(id, AppId(session))
\* ServerRegistry.store(value), called without the writer: the sessions it
\* sends the update packet to
UpdateRecipients(registry) == registry.sessions

handle_register(session, id, permissions) ==
    LET regs == RegistriesAfterGet(id)
    IN /\ IF ~MayRegister(id, session)
          THEN /\ registries' = regs
               /\ resp' = RespOf("register", session, id, "denied", permissions)
          ELSE /\ registries' = [regs EXCEPT ![id] =
                                   Some([Registry(regs, id) EXCEPT !.permissions = permissions])]
               /\ resp' = RespOf("register", session, id, "ok", permissions)
       /\ recipients' = {}
       /\ UNCHANGED <<storage, grants, boot>>

handle_listen(session, id) ==
    LET regs == RegistriesAfterGet(id)
        registry == Registry(regs, id)
    IN /\ IF ~check_permission(id, ReadFields(registry.permissions), session)
          THEN /\ registries' = regs
               /\ resp' = Resp("listen", session, id, "denied")
          ELSE /\ registries' = [regs EXCEPT ![id] =
                                   Some([registry EXCEPT !.sessions = @ \cup {session}])]
               /\ resp' = Resp("listen", session, id, "ok")
       /\ recipients' = {}
       /\ UNCHANGED <<storage, grants, boot>>

handle_update(session, id, value) ==
    LET regs == RegistriesAfterGet(id)
        registry == Registry(regs, id)
    IN IF ~check_permission(id, WriteFields(registry.permissions), session)
       THEN /\ registries' = regs
            /\ resp' = RespOf("update", session, id, "denied", value)
            /\ recipients' = {}
            /\ UNCHANGED <<storage, grants, boot>>
       ELSE /\ registries' = [regs EXCEPT ![id] = Some([registry EXCEPT !.data = value])]
            /\ storage' = [storage EXCEPT ![id] = value]
            /\ resp' = RespOf("update", session, id, "ok", value)
            /\ recipients' = UpdateRecipients(registry)
            /\ UNCHANGED <<grants, boot>>

handle_get(session, id) ==
    LET regs == RegistriesAfterGet(id)
        registry == Registry(regs, id)
    IN /\ registries' = regs
       /\ resp' = Resp("get", session, id,
                       IF check_permission(id, ReadFields(registry.permissions), session)
                       THEN "ok" ELSE "denied")
       /\ recipients' = {}
       /\ UNCHANGED <<storage, grants, boot>>

(***************************************************************************)
(* RegistryExtension.register and _on_start.  boot.phase is "new" before   *)
(* the server emits `start`, "starting" while _on_start runs and           *)
(* "started" when it has returned; boot.startup is _startup_registries     *)
(* and boot.i the position of _on_start's for loop in it.                  *)
(***************************************************************************)
ServerStarted == [phase |-> "started", startup |-> <<>>, i |-> 0]
\* ServerRegistry(server, id, permissions) on which load() has not run
UnloadedRegistry(id, permissions) ==
    [permissions |-> permissions, data |-> None, sessions |-> {}, loaded |-> FALSE]
\* ServerRegistry.load(): reads the stored value
load(registry, id) == [registry EXCEPT !.data = storage[id], !.loaded = TRUE]
\* register(registry_type): creates the registry when it is new and queues
\* it for _on_start; an existing registry is returned as it is
register(id, permissions) ==
    /\ IF Exists(registries, id)
       THEN UNCHANGED <<registries, boot>>
       ELSE /\ registries' = [registries EXCEPT ![id] = Some(UnloadedRegistry(id, permissions))]
            /\ boot' = [boot EXCEPT !.startup = Append(@, id)]
    /\ resp' = Resp("register()", "-", id, "ok")
    /\ recipients' = {}
    /\ UNCHANGED <<storage, grants>>
\* the server emits `start`: _on_start is called
server_start ==
    /\ boot.phase = "new"
    /\ boot' = [boot EXCEPT !.phase = "starting", !.i = 1]
    /\ UNCHANGED <<registries, storage, grants, resp, recipients>>
\* _on_start: `await registry.load()` for the next registry of the list
OnStartLoad ==
    /\ boot.phase = "starting"
    /\ boot.i <= Len(boot.startup)
    /\ LET id == boot.startup[boot.i]
       IN registries' = [registries EXCEPT ![id] = Some(load(Registry(registries, id), id))]
    /\ boot' = [boot EXCEPT !.i = @ + 1]
    /\ UNCHANGED <<storage, grants, resp, recipients>>
\* _on_start: the loop has ended, `self._startup_registries.clear()`
OnStartDone ==
    /\ boot.phase = "starting"
    /\ boot.i > Len(boot.startup)
    /\ boot' = [phase |-> "started", startup |-> <<>>, i |-> 0]
    /\ UNCHANGED <<registries, storage, grants, resp, recipients>>

(***************************************************************************)
(* Initial states                                                          *)
(***************************************************************************)
InitTable ==
    /\ listeners = <<>>
    /\ sessions = {}
    /\ proxy_sessions = <<>>
    /\ changed = FALSE
    /\ proxy_id = 0
    /\ save_task = None
    /\ cache = <<>>
    /\ cache_size = None
    /\ adapter = <<>>
    /\ closed = [s \in Sessions |-> FALSE]
    /\ task = [t \in Tasks |-> IdleTask]
    /\ savers = <<>>
    /\ ops = 0
    /\ n_add = 0
    /\ n_persist = 0
    /\ n_mark = 0
    /\ n_store = 0
    /\ added = <<>>
    /\ outstanding = [held |-> {}, dropped |-> {}, origin |-> {}]
    /\ listen_order = <<>>
    /\ cache_log = [op |-> "-", before |-> <<>>, after |-> <<>>, size |-> None,
                    att |-> <<>>, told |-> <<>>]

InitRegistry ==
    /\ registries = [id \in RegIds |-> None]
    /\ storage = [id \in RegIds |-> 0]
    /\ grants = [s \in RegSessions |-> {}]
    /\ resp = Resp("-", "-", <<>>, "-")
    /\ recipients = {}
    /\ boot = ServerStarted

(***************************************************************************)
(* The client's TableImpl.  An item is a record with the field its         *)
(* key_function reads; the serializer turns it into bytes and back.        *)
(*   proxies  _proxies, the registered callbacks in registration order     *)
(*   h        the running _on_proxy handler, from one await to the next    *)
(*   out      the proxy packets sent                                       *)
(*   log      the last handling that finished                              *)
(*   echoes, regs  the numbers of packets received and callbacks registered *)
(*   cache    _cache, with _cache_size unset                               *)
(*   it       the running iterate() generator                              *)
(***************************************************************************)
TableIds == {"T", "U"}
\* TableImpl._id
OwnId == "T"
key_function(item) == item.key
serialize(item) == <<"bytes", item.key, item.val>>
deserialize(b) == [key |-> b[2], val |-> b[3]]
\* the proxy callbacks a client may register; each returns an item or None
Callbacks == {"keep", "drop2", "flip", "rekey"}
Call(cb, item) ==
    CASE cb = "keep" -> item
      [] cb = "drop2" -> IF item.val = 2 THEN None ELSE item
      [] cb = "flip" -> [item EXCEPT !.val = 3 - @]
      [] OTHER -> [item EXCEPT !.key = "k1"]

_parse_items(items) == [i \in DOMAIN items |-> <<items[i][1], deserialize(items[i][2])>>]
RECURSIVE _serialize_items(_)
_serialize_items(items) ==
    IF items = <<>> THEN <<>>
    ELSE LET n == Len(items)
             item == items[n]
         IN DictSet(_serialize_items(SubSeq(items, 1, n - 1)),
                    key_function(item), serialize(item))

\* the bytes of the items of a table, as the server sends them
Encoded(d) == [i \in DOMAIN d |-> <<d[i][1], serialize([key |-> d[i][1], val |-> d[i][2]])>>]
IdleHandler ==
    [pc |-> "idle", packet |-> <<>>, items |-> <<>>, pi |-> 0, cb |-> "-",
     snap |-> <<>>, ki |-> 0, at |-> <<>>, touched |-> FALSE]
\* TableImpl.iterate: the generator's locals, its fetch in flight, and the
\* keys of the items yielded
IdleIterator ==
    [pc |-> "idle", backward |-> FALSE, chunk |-> 0, cursor |-> None, first |-> TRUE,
     yielded |-> <<>>]
NoHandling == [packet |-> <<>>, at |-> <<>>, touched |-> FALSE, sent |-> FALSE]
NewTableImpl ==
    [proxies |-> <<>>, h |-> IdleHandler, out |-> <<>>, log |-> NoHandling,
     echoes |-> 0, regs |-> 0, cache |-> <<>>, it |-> IdleIterator]

\* TableImpl.proxy(callback)
proxy_register(cb) ==
    /\ client.regs < MaxCallbacks
    /\ client' = [client EXCEPT !.proxies = Append(@, cb), !.regs = @ + 1,
                                !.h.touched = client.h.pc # "idle"]
\* the function TableImpl.proxy returned: self._proxies.remove(callback)
proxy_unregister(cb) ==
    /\ cb \in Range(client.proxies)
    /\ LET first == CHOOSE i \in DOMAIN client.proxies :
                       /\ client.proxies[i] = cb
                       /\ \A j \in 1..(i - 1) : client.proxies[j] # cb
       IN client' = [client EXCEPT
                        !.proxies = [i \in 1..(Len(@) - 1) |->
                                        IF i < first THEN @[i] ELSE @[i + 1]],
                        !.h.touched = client.h.pc # "idle"]

\* _on_proxy's loops run on to the next `await proxy(item)`, or to the send:
\* `for proxy in self._proxies` reads the list as it is when the iteration
\* starts, `list(items.items())` is the snapshot of that iteration
RECURSIVE ToNextAwait(_, _)
ToNextAwait(h, proxies) ==
    IF h.pi > Len(proxies) THEN [h EXCEPT !.pc = "send"]
    ELSE IF h.ki > Len(h.snap)
         THEN LET next == h.pi + 1
              IN ToNextAwait([h EXCEPT !.pi = next,
                                 !.cb = IF next <= Len(proxies) THEN proxies[next] ELSE "-",
                                 !.snap = h.items, !.ki = 1], proxies)
         ELSE [h EXCEPT !.pc = "call"]
\* the handler waits in a callback, or has sent its packet and is done
Settle(h) ==
    IF h.pc = "send"
    THEN [client EXCEPT
            !.h = IdleHandler,
            !.out = Append(@, [id |-> OwnId, key |-> h.packet.key,
                               items |-> _serialize_items(ValSeq(h.items))]),
            !.log = [packet |-> h.packet, at |-> h.at, touched |-> h.touched,
                     sent |-> TRUE]]
    ELSE [client EXCEPT !.h = h]
\* _on_proxy(packet), up to the first `await proxy(item)`
_on_proxy(packet) ==
    /\ client.h.pc = "idle"
    /\ client.echoes < MaxEchoes
    /\ IF packet.id # OwnId
       THEN client' = [client EXCEPT !.echoes = @ + 1,
                          !.log = [packet |-> packet, at |-> client.proxies,
                                   touched |-> FALSE, sent |-> FALSE]]
       ELSE LET items == _parse_items(packet.items)
                h == [IdleHandler EXCEPT !.packet = packet, !.items = items,
                         !.pi = 1, !.snap = items, !.ki = 1, !.at = client.proxies,
                         !.cb = IF Len(client.proxies) > 0 THEN client.proxies[1] ELSE "-"]
            IN client' = [Settle(ToNextAwait(h, client.proxies)) EXCEPT !.echoes = @ + 1]
\* Faulty variant: an item whose callback returned None stays in the packet.
ProxyReturnKeepsNone ==
    /\ client.h.pc = "call"
    /\ LET h == client.h
           key == h.snap[h.ki][1]
           updated_item == Call(h.cb, h.snap[h.ki][2])
           items == IF updated_item = None THEN h.items
                    ELSE DictSet(h.items, key, updated_item)
       IN client' = Settle(ToNextAwait([h EXCEPT !.items = items, !.ki = @ + 1],
                                       client.proxies))
\* _on_proxy resumed when `await proxy(item)` returns
ProxyReturn ==
    /\ client.h.pc = "call"
    /\ LET h == client.h
           key == h.snap[h.ki][1]
           updated_item == Call(h.cb, h.snap[h.ki][2])
           items == IF updated_item = None THEN DictDel(h.items, key)
                    ELSE DictSet(h.items, key, updated_item)
       IN client' = Settle(ToNextAwait([h EXCEPT !.items = items, !.ki = @ + 1],
                                       client.proxies))

\* update_cache with _cache_size None: the cache becomes the items
client_update_cache(items) == items
\* the fetch endpoint: the server's table asks its adapter
fetch_endpoint(before, after, cursor) ==
    Encoded(adapter_fetch_items(adapter, before, after, cursor))
Before(it) == IF it.backward THEN Some(it.chunk) ELSE None
After(it) == IF it.backward THEN None ELSE Some(it.chunk)
\* iterate(backward, cursor), up to the await of the first fetch_items;
\* chunk is self._chunk_size
client_iterate(backward, chunk) ==
    /\ client.it.pc \in {"idle", "done"}
    /\ client' = [client EXCEPT !.it =
                     [IdleIterator EXCEPT !.pc = "fetch", !.backward = backward,
                                          !.chunk = chunk]]
\* iterate resumed when fetch_items returns: the items are cached and
\* yielded; after the first fetch the loop is entered, after a later one
\* the cursor is popped from the items; then `while len(items) > 0` takes
\* the first key as the cursor and fetches again, or the generator ends
ClientFetched ==
    /\ client.it.pc = "fetch"
    /\ LET it == client.it
           items == _parse_items(fetch_endpoint(Before(it), After(it), it.cursor))
           yielded == it.yielded \o [i \in DOMAIN items |-> key_function(items[i][2])]
           rest == IF it.first THEN items ELSE DictDel(items, Value(it.cursor))
       IN client' = [client EXCEPT
                        !.cache = client_update_cache(items),
                        !.it = IF Len(rest) > 0
                               THEN [it EXCEPT !.yielded = yielded, !.first = FALSE,
                                               !.cursor = Some(rest[1][1])]
                               ELSE [it EXCEPT !.yielded = yielded, !.first = FALSE,
                                               !.pc = "done"]]

(***************************************************************************)
(* AiohttpSession.  listen() and disconnect() are coroutines: a step runs  *)
(* one of them from one await to the next.  loop[c] is the position of     *)
(* listen(), disc[c] the positions of the disconnect() calls made from     *)
(* outside the receive loop.                                               *)
(***************************************************************************)
Connections == {"c1", "c2"}
\* what socket.receive() can deliver
\* (MALFORMED: a binary frame the ByteReader cannot read)
MsgTypes == {"BINARY", "TEXT", "CLOSE", "ERROR", "CLOSED", "CLOSING", "EMPTY", "MALFORMED"}
\* a socket closed on this side delivers nothing but CLOSED or CLOSING
Deliverable(c) == IF sock[c] = "closed" THEN {"CLOSED", "CLOSING"} ELSE MsgTypes

\* AiohttpSession._receive: a packet, None for a peer's close, or an error
\* for anything else
_receive(msg) ==
    IF msg = "BINARY" THEN "packet"
    ELSE IF msg = "CLOSE" THEN "none"
    ELSE "error"

\* listen() is started and waits in socket.receive()
listen(c) ==
    /\ loop[c] = "new"
    /\ loop' = [loop EXCEPT ![c] = "receive"]
    /\ UNCHANGED <<sock, disc, emitted, packets, hs, frames, io>>

\* listen(): socket.receive() returns msg.  A packet is handed to the packet
\* listeners and the loop waits again; on None the loop breaks and on an
\* error it is left by the exception: both run the finally block, which
\* calls disconnect(), and disconnect() waits in socket.close().
Receive(c, msg) ==
    /\ loop[c] = "receive"
    /\ msg \in Deliverable(c)
    /\ IF _receive(msg) = "packet"
       THEN /\ packets[c] < MaxFrames
            /\ packets' = [packets EXCEPT ![c] = @ + 1]
            /\ UNCHANGED <<sock, loop>>
       ELSE /\ sock' = [sock EXCEPT ![c] = "closed"]
            /\ loop' = [loop EXCEPT ![c] = "emit"]
            /\ UNCHANGED packets
    /\ io' = [io EXCEPT ![c].msg = msg]
    /\ UNCHANGED <<disc, emitted, hs, frames>>

\* disconnect() called from outside the loop, up to its wait in socket.close()
disconnect(c) ==
    /\ Len(disc[c]) < MaxDisconnectCalls
    /\ sock' = [sock EXCEPT ![c] = "closed"]
    /\ disc' = [disc EXCEPT ![c] = Append(@, "emit")]
    /\ UNCHANGED <<loop, emitted, packets, hs, frames, io>>

\* disconnect() resumed after socket.close(): emits `disconnected`
DisconnectEmit(c, n) ==
    /\ n \in DOMAIN disc[c]
    /\ disc[c][n] = "emit"
    /\ disc' = [disc EXCEPT ![c][n] = "done"]
    /\ emitted' = [emitted EXCEPT ![c] = @ + 1]
    /\ UNCHANGED <<sock, loop, packets, hs, frames, io>>

\* the disconnect() of listen()'s finally block resumed after socket.close()
ListenEmit(c) ==
    /\ loop[c] = "emit"
    /\ loop' = [loop EXCEPT ![c] = "done"]
    /\ emitted' = [emitted EXCEPT ![c] = @ + 1]
    /\ UNCHANGED <<sock, disc, packets, hs, frames, io>>

\* the packet.emit tasks listen() created that have not run yet, by arrival
\* number
Pending(c) == {n \in 1..packets[c] : n \notin Range(io[c].handed)}
\* Faulty variant: the event loop runs the created tasks in any order.
PacketEmitAnyOrder(c) ==
    /\ \E n \in Pending(c) : io' = [io EXCEPT ![c].handed = Append(@, n)]
    /\ UNCHANGED <<sock, loop, disc, emitted, packets, hs, frames>>
\* the task made by `asyncio.create_task(self._listeners.packet.emit(self,
\* event))` runs: the event loop starts the tasks in the order of their
\* creation, so the oldest packet not yet handed is handed to the listeners
PacketEmit(c) ==
    /\ Pending(c) # {}
    /\ io' = [io EXCEPT ![c].handed = Append(@, Len(@) + 1)]
    /\ UNCHANGED <<sock, loop, disc, emitted, packets, hs, frames>>
\* Faulty variant of the check in send: writes whatever the socket's state.
SendRefusedNever(state) == FALSE
\* AiohttpSession.send / WebsocketsConnection.send: `if self.closed: raise`
SendRefused(state) == state = "closed"
\* the packet types written with send
SendTypes == {"data", "disconnect"}
\* send(type, data): raises ValueError on a closed socket, else writes a frame
send(c, type) ==
    /\ hs[c].pc = "created"
    /\ io[c].sends < MaxSends
    /\ IF SendRefused(sock[c])
       THEN /\ io' = [io EXCEPT ![c].send = "ValueError", ![c].sends = @ + 1]
            /\ UNCHANGED frames
       ELSE /\ io' = [io EXCEPT ![c].send = "ok", ![c].sends = @ + 1]
            /\ frames' = [frames EXCEPT ![c] = Append(@, type)]
    /\ UNCHANGED <<sock, loop, disc, emitted, packets, hs>>

(***************************************************************************)
(* AiohttpSession.create: the handshake.                                   *)
(*   "new"      waiting for the first frame                                *)
(*   "auth"     awaiting security.authenticate_app                         *)
(*   "created"  the session exists and the token packet is written         *)
(*   "failed"   create raised                                              *)
(***************************************************************************)
PacketNames == {"connect", "other"}
Frame(msg, name) == <<msg, IF msg = "BINARY" THEN name ELSE "-">>
\* Faulty variant of the gate: any packet passes.
IsConnectAnyPacket(msg, name) == _receive(msg) = "packet"
\* data is not None and data.type == PACKET_TYPES.Connect.type
IsConnect(msg, name) == _receive(msg) = "packet" /\ name = "connect"
\* create, up to `await server.security.authenticate_app`
create(c, msg, name) ==
    /\ hs[c].pc = "new"
    /\ msg \in Deliverable(c)
    /\ hs' = [hs EXCEPT ![c] =
                IF IsConnect(msg, name)
                THEN [pc |-> "auth", first |-> Frame(msg, name), auth |-> hs[c].auth + 1]
                ELSE [pc |-> "failed", first |-> Frame(msg, name), auth |-> hs[c].auth]]
    /\ UNCHANGED <<sock, loop, disc, emitted, packets, frames, io>>
\* create, resumed after authenticate_app: it raised, or the session is
\* constructed and the token packet is sent
Authenticated(c, ok) ==
    /\ hs[c].pc = "auth"
    /\ IF ok /\ ~SendRefused(sock[c])
       THEN /\ hs' = [hs EXCEPT ![c].pc = "created"]
            /\ frames' = [frames EXCEPT ![c] = Append(@, "token")]
       ELSE /\ hs' = [hs EXCEPT ![c].pc = "failed"]
            /\ UNCHANGED frames
    /\ UNCHANGED <<sock, loop, disc, emitted, packets, io>>

\* the state before AiohttpSession.create is called
InitConnection ==
    /\ sock = [c \in Connections |-> "open"]
    /\ loop = [c \in Connections |-> "new"]
    /\ disc = [c \in Connections |-> <<>>]
    /\ emitted = [c \in Connections |-> 0]
    /\ packets = [c \in Connections |-> 0]
    /\ hs = [c \in Connections |-> [pc |-> "new", first |-> <<>>, auth |-> 0]]
    /\ frames = [c \in Connections |-> <<>>]
    /\ io = [c \in Connections |-> [msg |-> "-", send |-> "-", sends |-> 0, handed |-> <<>>]]
    /\ client = NewTableImpl

InitSession ==
    /\ sock = [c \in Connections |-> "open"]
    /\ loop = [c \in Connections |-> "new"]
    /\ disc = [c \in Connections |-> <<>>]
    /\ emitted = [c \in Connections |-> 0]
    /\ packets = [c \in Connections |-> 0]
    /\ hs = [c \in Connections |->
               [pc |-> "created", first |-> Frame("BINARY", "connect"), auth |-> 1]]
    /\ frames = [c \in Connections |-> <<"token">>]
    /\ io = [c \in Connections |-> [msg |-> "-", send |-> "-", sends |-> 0, handed |-> <<>>]]
    /\ client = NewTableImpl

(***************************************************************************)
(* The `permissions` property of AiohttpSession (and, with the same body,  *)
(* of WebsocketsConnection).  The getter's body is `return                 *)
(* self.permissions`: evaluating it calls the getter again.  depth is the  *)
(* number of getter frames on the stack; the interpreter raises            *)
(* RecursionError when the stack is MaxDepth frames deep.                  *)
(***************************************************************************)
StoredPermissions == {"p1", "p2"}
\* a caller reads session.permissions: the getter is entered
permissions_call(c) ==
    /\ io[c].depth = 0
    /\ io' = [io EXCEPT ![c].depth = 1, ![c].perm = "-"]
    /\ UNCHANGED <<sock, loop, disc, emitted, packets, hs, frames>>
\* the body `return self.permissions` enters the getter once more
\* (`permissions` names a parameter elsewhere)
permissions_getter(c) ==
    /\ io[c].depth \in 1..(MaxDepth - 1)
    /\ io' = [io EXCEPT ![c].depth = @ + 1]
    /\ UNCHANGED <<sock, loop, disc, emitted, packets, hs, frames>>
\* the stack is full: RecursionError unwinds every frame to the caller
permissions_overflow(c) ==
    /\ io[c].depth = MaxDepth
    /\ io' = [io EXCEPT ![c].depth = 0, ![c].perm = "RecursionError"]
    /\ UNCHANGED <<sock, loop, disc, emitted, packets, hs, frames>>

\* sessions constructed with any stored permission set
InitAccessor ==
    /\ InitTable
    /\ InitRegistry
    /\ sock = [c \in Connections |-> "open"]
    /\ loop = [c \in Connections |-> "new"]
    /\ disc = [c \in Connections |-> <<>>]
    /\ emitted = [c \in Connections |-> 0]
    /\ packets = [c \in Connections |-> 0]
    /\ hs = [c \in Connections |->
               [pc |-> "created", first |-> Frame("BINARY", "connect"), auth |-> 1]]
    /\ frames = [c \in Connections |-> <<"token">>]
    /\ \E stored \in [Connections -> StoredPermissions] :
          io = [c \in Connections |->
                  [msg |-> "-", send |-> "-", sends |-> 0, handed |-> <<>>,
                   stored |-> stored[c], depth |-> 0, perm |-> "-"]]
    /\ client = NewTableImpl

(***************************************************************************)
(* History: the calls a step has added to a coroutine's trace.             *)
(***************************************************************************)
NewEvents(t) ==
    IF task'[t].id # task[t].id THEN task'[t].trace
    ELSE SubSeq(task'[t].trace, Len(task[t].trace) + 1, Len(task'[t].trace))
NewCalls(t, call) == Len(SelectSeq(NewEvents(t), LAMBDA e : e.call = call))
Started(t, op) == task'[t].id # task[t].id /\ task'[t].op = op
\* counts the add() calls and the set_all calls that persist an add
CountAdds(t) ==
    /\ n_add' = n_add + (IF Started(t, "add") THEN 1 ELSE 0)
    /\ n_persist' = n_persist + NewCalls(t, "set_all")
    /\ UNCHANGED <<n_mark, n_store, added, outstanding, listen_order, cache_log>>
\* counts the mark_changed() calls
CountMarks(t) ==
    /\ n_mark' = n_mark + NewCalls(t, "mark_changed")
    /\ UNCHANGED <<n_add, n_persist, n_store, added, outstanding, listen_order, cache_log>>
\* counts the adapter.store() calls of save task n
CountStores(n) ==
    /\ n_store' = n_store + (IF savers'[n] = "storing" THEN 1 ELSE 0)
    /\ UNCHANGED <<n_add, n_persist, n_mark, added, outstanding, listen_order, cache_log>>
\* records the key of a single-item add
RecordAdd(key) ==
    /\ added' = Append(added, key)
    /\ UNCHANGED <<n_add, n_persist, n_mark, n_store, outstanding, listen_order, cache_log>>

\* a proxy packet as the protocol identifies it
Held(who, key, items) == [who |-> who, key |-> key, items |-> items]
\* records the proxy packets a step sends, and the echo it handles
TrackProxy(t) ==
    LET sends == SelectSeq(NewEvents(t), LAMBDA e : e.call = "send_proxy")
        sent == {Held(sends[i].who, sends[i].key, sends[i].arg) : i \in DOMAIN sends}
        echoed == IF Started(t, "proxy")
                  THEN {Held(task'[t].who, task'[t].key, task'[t].items)}
                  ELSE {}
    IN /\ outstanding' = [outstanding EXCEPT !.held = (@ \ echoed) \cup sent]
       /\ UNCHANGED <<n_add, n_persist, n_mark, n_store, added, listen_order, cache_log>>
\* records the proxy packets a disconnecting session holds
DropHeld(session) ==
    LET mine == {h \in outstanding.held : h.who = session}
    IN /\ outstanding' = [held |-> outstanding.held \ mine,
                          origin |-> outstanding.origin,
                          dropped |-> outstanding.dropped \cup
                                         {<<h.key, h.items>> : h \in mine}]
       /\ UNCHANGED <<n_add, n_persist, n_mark, n_store, added, listen_order, cache_log>>

\* a proxy packet a session was sent, with the keys of the add it stems from
Origin(who, key, orig) == [who |-> who, key |-> key, orig |-> orig]
\* the keys of the adds that the packet (who, key) may stem from
OriginsOf(who, key) == {o.orig : o \in {x \in outstanding.origin : x.who = who /\ x.key = key}}
\* records, for every proxy packet a step sends, the add it stems from: the
\* add itself, or the add of the packet whose echo the step handles
TrackOrigin(t) ==
    LET sends == SelectSeq(NewEvents(t), LAMBDA e : e.call = "send_proxy")
        from == IF Started(t, "proxy")
                THEN OriginsOf(task'[t].who, task'[t].key)
                ELSE {DictKeys(task'[t].items)}
        sent == {Origin(sends[i].who, sends[i].key, orig) : i \in DOMAIN sends, orig \in from}
    IN /\ outstanding' = [outstanding EXCEPT !.origin = @ \cup sent]
       /\ UNCHANGED <<n_add, n_persist, n_mark, n_store, added, listen_order, cache_log>>

\* records a session's TABLE_PROXY_LISTEN
RecordListen(session) ==
    /\ listen_order' = Append(listen_order, session)
    /\ UNCHANGED <<n_add, n_persist, n_mark, n_store, added, outstanding, cache_log>>

\* records a step that changes the content of the cache: the operation,
\* the cache before and after, cache_size, the listeners of the table, and
\* the listeners the step calls on_cache_update on with the new cache
LogCache(t) ==
    LET calls == SelectSeq(NewEvents(t),
                           LAMBDA e : e.call = "on_cache_update" /\ e.arg = cache')
    IN /\ cache_log' = IF cache' = cache THEN cache_log
                       ELSE [op |-> task'[t].op, before |-> cache, after |-> cache',
                             size |-> cache_size, att |-> listeners,
                             told |-> [i \in DOMAIN calls |-> calls[i].who]]
       /\ UNCHANGED <<n_add, n_persist, n_mark, n_store, added, outstanding, listen_order>>

Init == InitTable /\ InitRegistry /\ InitSession

\* a step of the table alone, without and with history
Tbl(A) == A /\ UNCHANGED <<histVars, regVars, sessVars, clientVars>>
TblH(A, H) == A /\ H /\ UNCHANGED <<regVars, sessVars, clientVars>>

(***************************************************************************)
(* SpecCache.  The table and its cache: every table operation on one       *)
(* coroutine, with one listener session.                                   *)
(***************************************************************************)
CacheTasks == {"t1"}
CacheItems == ItemDicts(Keys, {1}, MaxItems)
CacheKeyLists == KeyLists(Keys, MaxItems)
CacheSizes == {None} \cup {Some(n) : n \in 0..MaxCacheSize}

NextCache ==
    \/ \E t \in CacheTasks, items \in CacheItems : Tbl(add(t, items))
    \/ \E t \in CacheTasks, items \in CacheItems : Tbl(update(t, items))
    \/ \E t \in CacheTasks, keys \in CacheKeyLists : Tbl(remove(t, keys))
    \/ \E t \in CacheTasks : Tbl(clear(t))
    \/ \E t \in CacheTasks, key \in Keys : Tbl(get(t, key))
    \/ \E t \in CacheTasks, keys \in CacheKeyLists : Tbl(get_all(t, keys))
    \/ \E t \in CacheTasks : Tbl(Notify(t))
    \/ \E t \in CacheTasks : Tbl(RemoveRead(t))
    \/ \E t \in CacheTasks : Tbl(RemoveDone(t))
    \/ \E t \in CacheTasks : Tbl(GetRead(t))
    \/ \E t \in CacheTasks : Tbl(GetAllRead(t))
    \/ \E size \in CacheSizes : Tbl(set_config(size))
    \/ \E size \in 0..MaxCacheSize : Tbl(set_cache_size(size))
    \/ Tbl(attach_session("s1"))

SpecCache == Init /\ [][NextCache]_vars

(***************************************************************************)
(* SpecProxy.  The proxy chain: item_add packets, proxy packets from any   *)
(* session with any key, sessions joining the chain, one session           *)
(* listening and disconnecting.                                            *)
(***************************************************************************)
ProxyTasks == {"t1"}
ProxyItems == ItemDicts({"k1", "k2"}, {1}, 1)
ProxyListeners == {"s2"}

NextProxy ==
    \/ \E t \in ProxyTasks, items \in ProxyItems : TblH(add(t, items), CountAdds(t))
    \/ \E t \in ProxyTasks, s \in Sessions, key \in 0..proxy_id, items \in ProxyItems :
          TblH(proxy(t, s, key, items), CountAdds(t))
    \/ \E t \in ProxyTasks : Tbl(Notify(t))
    \/ \E s \in Sessions : Tbl(attach_proxy_session(s))
    \/ \E s \in ProxyListeners : Tbl(attach_session(s))
    \/ \E s \in ProxyListeners : Tbl(CloseSocket(s))
    \/ \E s \in ProxyListeners : Tbl(handle_disconnection(s))

SpecProxy == Init /\ [][NextProxy]_vars

(***************************************************************************)
(* SpecFanout.  Adds on a table without proxies while sessions listen,     *)
(* close and are detached.                                                 *)
(***************************************************************************)
FanoutTasks == {"t1"}
FanoutItems == ItemDicts({"k1", "k2"}, {1}, 1)

NextFanout ==
    \/ \E t \in FanoutTasks, items \in FanoutItems : Tbl(add(t, items))
    \/ \E t \in FanoutTasks : Tbl(Notify(t))
    \/ \E s \in Sessions : Tbl(attach_session(s))
    \/ \E s \in Sessions : Tbl(CloseSocket(s))
    \/ \E s \in Sessions : Tbl(handle_disconnection(s))
    \/ Tbl(set_config(Some(1)))

SpecFanout == Init /\ [][NextFanout]_vars

(***************************************************************************)
(* SpecAdds.  cache_size is set before any insertion; then single-item     *)
(* adds of pairwise distinct keys, one after the other.                    *)
(***************************************************************************)
AddKeys == {"k1", "k2", "k3", "k4"}
AddListeners == {"s1", "s2"}

NextAdds ==
    \/ \E size \in 1..MaxCacheSize :
          /\ ops = 0
          /\ IsNone(cache_size)
          /\ Tbl(set_cache_size(size))
    \/ \E key \in AddKeys \ Range(added), v \in Vals :
          /\ ~IsNone(cache_size)
          /\ TblH(add("t1", <<<<key, v>>>>), RecordAdd(key))
    \/ Tbl(Notify("t1"))
    \/ \E s \in AddListeners : Tbl(attach_session(s))

SpecAdds == Init /\ [][NextAdds]_vars

(***************************************************************************)
(* SpecSave.  Mutations and the deferred save task.                        *)
(***************************************************************************)
SaveItems == ItemDicts({"k1"}, Vals, 1)

NextSave ==
    \/ \E items \in SaveItems : TblH(update("t1", items), CountMarks("t1"))
    \/ \E items \in SaveItems : TblH(add("t1", items), CountMarks("t1"))
    \/ TblH(Notify("t1"), CountMarks("t1"))
    \/ \E n \in DOMAIN savers : TblH(SaveLoop(n), CountStores(n))
    \/ \E n \in DOMAIN savers : Tbl(SaveStored(n))
    \/ Tbl(attach_session("s1"))

SpecSave == Init /\ [][NextSave]_vars

(***************************************************************************)
(* SpecRegistry.  Sessions with any grants register, listen to, update     *)
(* and read the registries.                                                *)
(***************************************************************************)
Reg(A) == A /\ UNCHANGED <<tableVars, histVars, sessVars, clientVars>>

InitGrants ==
    /\ InitTable
    /\ InitSession
    /\ registries = [id \in RegIds |-> None]
    /\ storage = [id \in RegIds |-> 0]
    /\ grants \in [RegSessions -> GrantSets]
    /\ resp = Resp("-", "-", <<>>, "-")
    /\ recipients = {}
    /\ boot = ServerStarted

NextRegistry ==
    \/ \E s \in RegSessions, id \in RegIds, permissions \in PermissionChoices :
          Reg(handle_register(s, id, permissions))
    \/ \E s \in RegSessions, id \in RegIds : Reg(handle_listen(s, id))
    \/ \E s \in RegSessions, id \in RegIds, value \in RegVals :
          Reg(handle_update(s, id, value))
    \/ \E s \in RegSessions, id \in RegIds : Reg(handle_get(s, id))

SpecRegistry == InitGrants /\ [][NextRegistry]_vars

(***************************************************************************)
(* SpecSession.  Two connections: the receive loop, frames of every type,  *)
(* and disconnect() calls from outside the loop.                           *)
(***************************************************************************)
Sess(A) == A /\ UNCHANGED <<tableVars, histVars, regVars, clientVars>>

NextSession ==
    \/ \E c \in Connections : Sess(listen(c))
    \/ \E c \in Connections, msg \in MsgTypes : Sess(Receive(c, msg))
    \/ \E c \in Connections : Sess(disconnect(c))
    \/ \E c \in Connections, n \in 1..MaxDisconnectCalls : Sess(DisconnectEmit(c, n))
    \/ \E c \in Connections : Sess(ListenEmit(c))

SpecSession == Init /\ [][NextSession]_vars

(***************************************************************************)
(* SpecAbandon.  Proxy packets in flight while sessions disconnect: a      *)
(* connected session may send any proxy packet, a disconnected one none.   *)
(***************************************************************************)
AbandonItems == ItemDicts({"k1"}, Vals, 1)
AbandonListeners == {"s2"}

NextAbandon ==
    \/ \E items \in AbandonItems : TblH(add("t1", items), TrackProxy("t1"))
    \/ \E s \in Sessions, key \in 1..proxy_id, items \in AbandonItems :
          /\ ~closed[s]
          /\ TblH(proxy("t1", s, key, items), TrackProxy("t1"))
    \/ Tbl(Notify("t1"))
    \/ \E s \in Sessions : Tbl(attach_proxy_session(s))
    \/ \E s \in AbandonListeners : Tbl(attach_session(s))
    \/ \E s \in Sessions : TblH(CloseSocket(s), DropHeld(s))
    \/ \E s \in AbandonListeners : Tbl(handle_disconnection(s))

SpecAbandon == Init /\ [][NextAbandon]_vars

(***************************************************************************)
(* SpecFail.  Table operations whose adapter calls may raise.              *)
(***************************************************************************)
FailItems == ItemDicts({"k1", "k2"}, {1}, 1)
FailKeyLists == KeyLists({"k1", "k2"}, 1)

NextFail ==
    \/ \E items \in FailItems : Tbl(add("t1", items))
    \/ \E items \in FailItems : Tbl(add_fails("t1", items))
    \/ \E items \in FailItems : Tbl(update("t1", items))
    \/ \E items \in FailItems : Tbl(update_fails("t1", items))
    \/ \E items \in FailItems : Tbl(proxy("t1", "s1", proxy_id, items))
    \/ \E items \in FailItems : Tbl(proxy_fails("t1", "s1", proxy_id, items))
    \/ \E keys \in FailKeyLists : Tbl(remove("t1", keys))
    \/ \E keys \in FailKeyLists : Tbl(remove_fails("t1", keys))
    \/ Tbl(RemoveRead("t1"))
    \/ Tbl(RemoveReadFails("t1"))
    \/ Tbl(RemoveDone("t1"))
    \/ Tbl(clear("t1"))
    \/ Tbl(clear_fails("t1"))
    \/ Tbl(Notify("t1"))
    \/ \E n \in 1..MaxOps : Tbl(SaveLoop(n))
    \/ \E n \in 1..MaxOps : Tbl(SaveStored(n))
    \/ \E n \in 1..MaxOps : Tbl(StoreFails(n))
    \/ Tbl(set_cache_size(MaxCacheSize))
    \/ Tbl(attach_session("s2"))
    \/ Tbl(attach_proxy_session("s1"))

SpecFail == Init /\ [][NextFail]_vars

(***************************************************************************)
(* SpecHandshake.  Connections from the first frame on: create, then the   *)
(* created session's receive loop, sends and disconnects.                  *)
(***************************************************************************)
InitHandshake == InitTable /\ InitRegistry /\ InitConnection
\* the connections whose sessions are followed after create
Talkers == {"c1"}
Created(c) == hs[c].pc = "created"

NextHandshake ==
    \/ \E c \in Connections, msg \in MsgTypes, name \in PacketNames :
          Sess(create(c, msg, name))
    \/ \E c \in Connections, ok \in BOOLEAN : Sess(Authenticated(c, ok))
    \/ \E c \in Talkers : Created(c) /\ Sess(listen(c))
    \/ \E c \in Talkers, msg \in MsgTypes : Created(c) /\ Sess(Receive(c, msg))
    \/ \E c \in Talkers, type \in SendTypes : Sess(send(c, type))
    \/ \E c \in Talkers : Created(c) /\ Sess(disconnect(c))
    \/ \E c \in Talkers, n \in 1..MaxDisconnectCalls : Sess(DisconnectEmit(c, n))
    \/ \E c \in Talkers : Sess(ListenEmit(c))

SpecHandshake == InitHandshake /\ [][NextHandshake]_vars

(***************************************************************************)
(* SpecTraffic.  Established sessions: frames of every type arrive,        *)
(* packets are sent, and disconnect() is called.                           *)
(***************************************************************************)
NextTraffic ==
    \/ \E c \in Talkers : Sess(listen(c))
    \/ \E c \in Talkers, msg \in MsgTypes : Sess(Receive(c, msg))
    \/ \E c \in Talkers, type \in SendTypes : Sess(send(c, type))
    \/ \E c \in Talkers : Sess(disconnect(c))
    \/ \E c \in Talkers, n \in 1..MaxDisconnectCalls : Sess(DisconnectEmit(c, n))
    \/ \E c \in Talkers : Sess(ListenEmit(c))

SpecTraffic == Init /\ [][NextTraffic]_vars

(***************************************************************************)
(* SpecReads.  Reads and writes of a table whose cache_size starts unset   *)
(* and may be set once.                                                    *)
(***************************************************************************)
ReadItems == ItemDicts({"k1", "k2"}, {1}, 1)
ReadKeyLists == KeyLists({"k1", "k2"}, MaxItems)

NextReads ==
    \/ \E items \in ReadItems : Tbl(add("t1", items))
    \/ \E items \in ReadItems : Tbl(update("t1", items))
    \/ \E keys \in ReadKeyLists : Tbl(remove("t1", keys))
    \/ Tbl(clear("t1"))
    \/ \E key \in {"k1", "k2"} : Tbl(get("t1", key))
    \/ \E keys \in ReadKeyLists : Tbl(get_all("t1", keys))
    \/ Tbl(table_size("t1"))
    \/ Tbl(Notify("t1"))
    \/ Tbl(RemoveRead("t1"))
    \/ Tbl(RemoveDone("t1"))
    \/ Tbl(GetRead("t1"))
    \/ Tbl(GetAllRead("t1"))
    \/ \E n \in 0..MaxCacheSize : IsNone(cache_size) /\ Tbl(set_cache_size(n))
    \/ Tbl(attach_session("s1"))

SpecReads == Init /\ [][NextReads]_vars

(***************************************************************************)
(* SpecRewrite.  A proxy chain whose sessions answer the proxy packets     *)
(* they were sent with items of their choice.                              *)
(***************************************************************************)
RewriteItems == ItemDicts({"k1", "k2"}, Vals, 1)
RewriteProxies == {"s1", "s2"}

NextRewrite ==
    \/ \E items \in RewriteItems : TblH(add("t1", items), TrackOrigin("t1"))
    \/ \E s \in RewriteProxies, key \in 1..proxy_id, items \in RewriteItems \cup {<<>>} :
          /\ OriginsOf(s, key) # {}
          /\ TblH(proxy("t1", s, key, items), TrackOrigin("t1"))
    \/ Tbl(Notify("t1"))
    \/ \E s \in RewriteProxies : Tbl(attach_proxy_session(s))
    \/ Tbl(attach_session("s3"))

SpecRewrite == Init /\ [][NextRewrite]_vars

(***************************************************************************)
(* SpecListen.  Sessions issue TABLE_PROXY_LISTEN once each, disconnect,   *)
(* and adds travel the chain.                                              *)
(***************************************************************************)
ListenItems == ItemDicts({"k1"}, {1}, 1)
ListenListeners == {"s1"}

NextListen ==
    \/ \E s \in Sessions \ Range(listen_order) :
          TblH(attach_proxy_session(s), RecordListen(s))
    \/ \E s \in ListenListeners : Tbl(attach_session(s))
    \/ \E s \in Sessions : Tbl(CloseSocket(s))
    \/ \E s \in ListenListeners : Tbl(handle_disconnection(s))
    \/ \E items \in ListenItems : Tbl(add("t1", items))
    \/ \E s \in Sessions, items \in ListenItems :
          /\ ~closed[s]
          /\ Tbl(proxy("t1", s, proxy_id, items))
    \/ Tbl(Notify("t1"))

SpecListen == Init /\ [][NextListen]_vars

(***************************************************************************)
(* SpecAccessor.  Callers read the permissions of two sessions while the   *)
(* sessions send and are disconnected.                                     *)
(***************************************************************************)
NextAccessor ==
    \/ \E c \in Connections : Sess(permissions_call(c))
    \/ \E c \in Connections : Sess(permissions_getter(c))
    \/ \E c \in Connections : Sess(permissions_overflow(c))
    \/ \E c \in Talkers : Sess(disconnect(c))
    \/ \E c \in Talkers, n \in 1..MaxDisconnectCalls : Sess(DisconnectEmit(c, n))

SpecAccessor == InitAccessor /\ [][NextAccessor]_vars

(***************************************************************************)
(* SpecBoot.  Server code registers registries before, during and after    *)
(* server start; sessions send registry packets once the server has        *)
(* started.                                                                *)
(***************************************************************************)
InitBoot ==
    /\ InitTable
    /\ InitSession
    /\ registries = [id \in RegIds |-> None]
    /\ storage \in [RegIds -> RegVals]
    /\ grants = [s \in RegSessions |-> {PermAny}]
    /\ resp = Resp("-", "-", <<>>, "-")
    /\ recipients = {}
    /\ boot = [phase |-> "new", startup |-> <<>>, i |-> 0]

NextBoot ==
    \/ \E id \in RegIds : Reg(register(id, NoPermissions))
    \/ Reg(server_start)
    \/ Reg(OnStartLoad)
    \/ Reg(OnStartDone)
    \/ \E s \in RegSessions, id \in RegIds :
          boot.phase = "started" /\ Reg(handle_get(s, id))
    \/ \E s \in RegSessions, id \in RegIds, value \in RegVals :
          boot.phase = "started" /\ Reg(handle_update(s, id, value))
    \/ \E s \in RegSessions, id \in RegIds :
          boot.phase = "started" /\ Reg(handle_listen(s, id))

SpecBoot == InitBoot /\ [][NextBoot]_vars

(***************************************************************************)
(* SpecNotice.  Every table operation on a table with a cache and up to    *)
(* two listeners, with the changes of the cache recorded.                  *)
(***************************************************************************)
NoticeItems == ItemDicts({"k1", "k2"}, {1}, 1)
NoticeKeyLists == KeyLists({"k1", "k2"}, 1)
NoticeListeners == {"s1", "s2"}

NextNotice ==
    \/ \E items \in NoticeItems : TblH(add("t1", items), LogCache("t1"))
    \/ \E items \in NoticeItems : TblH(update("t1", items), LogCache("t1"))
    \/ \E keys \in NoticeKeyLists : TblH(remove("t1", keys), LogCache("t1"))
    \/ TblH(clear("t1"), LogCache("t1"))
    \/ \E key \in {"k1", "k2"} : TblH(get("t1", key), LogCache("t1"))
    \/ TblH(Notify("t1"), LogCache("t1"))
    \/ TblH(RemoveRead("t1"), LogCache("t1"))
    \/ TblH(RemoveDone("t1"), LogCache("t1"))
    \/ TblH(GetRead("t1"), LogCache("t1"))
    \/ \E n \in 1..MaxCacheSize : IsNone(cache_size) /\ Tbl(set_config(Some(n)))
    \/ \E s \in NoticeListeners : Tbl(attach_session(s))

SpecNotice == Init /\ [][NextNotice]_vars

(***************************************************************************)
(* SpecShrink.  Insertions into the cache while cache_size is set, raised  *)
(* and lowered.                                                            *)
(***************************************************************************)
ShrinkItems == ItemDicts(Keys, {1}, 1)

NextShrink ==
    \/ \E items \in ShrinkItems : TblH(add("t1", items), LogCache("t1"))
    \/ \E items \in ShrinkItems : TblH(update("t1", items), LogCache("t1"))
    \/ \E key \in Keys : TblH(get("t1", key), LogCache("t1"))
    \/ TblH(Notify("t1"), LogCache("t1"))
    \/ TblH(GetRead("t1"), LogCache("t1"))
    \/ \E n \in 1..MaxCacheSize : Tbl(set_config(Some(n)))
    \/ Tbl(attach_session("s1"))

SpecShrink == Init /\ [][NextShrink]_vars

(***************************************************************************)
(* SpecRemove.  Items are added and removed while sessions listen, close   *)
(* and are detached.                                                       *)
(***************************************************************************)
RemoveItems == ItemDicts({"k1", "k2"}, Vals, 1)
RemoveKeyLists == KeyLists({"k1", "k2"}, MaxItems)
RemoveListeners == {"s1", "s2"}

NextRemove ==
    \/ \E items \in RemoveItems : Tbl(add("t1", items))
    \/ \E keys \in RemoveKeyLists : Tbl(remove("t1", keys))
    \/ Tbl(RemoveRead("t1"))
    \/ Tbl(RemoveDone("t1"))
    \/ Tbl(Notify("t1"))
    \/ \E s \in RemoveListeners : Tbl(attach_session(s))
    \/ \E s \in RemoveListeners : Tbl(CloseSocket(s))
    \/ \E s \in RemoveListeners : Tbl(handle_disconnection(s))
    \/ IsNone(cache_size) /\ Tbl(set_config(Some(MaxCacheSize)))

SpecRemove == Init /\ [][NextRemove]_vars

(***************************************************************************)
(* SpecBypass.  Every mutation on a table with proxy sessions and a        *)
(* listener.                                                               *)
(***************************************************************************)
BypassItems == ItemDicts({"k1", "k2"}, {1}, 1)
BypassKeyLists == KeyLists({"k1", "k2"}, 1)
BypassProxies == {"s1", "s2"}

NextBypass ==
    \/ \E items \in BypassItems : Tbl(add("t1", items))
    \/ \E items \in BypassItems : Tbl(update("t1", items))
    \/ \E keys \in BypassKeyLists : Tbl(remove("t1", keys))
    \/ Tbl(clear("t1"))
    \/ \E s \in BypassProxies, items \in BypassItems :
          Tbl(proxy("t1", s, proxy_id, items))
    \/ Tbl(Notify("t1"))
    \/ Tbl(RemoveRead("t1"))
    \/ Tbl(RemoveDone("t1"))
    \/ \E s \in BypassProxies : Tbl(attach_proxy_session(s))
    \/ Tbl(attach_session("s3"))

SpecBypass == Init /\ [][NextBypass]_vars

(***************************************************************************)
(* SpecLoop.  The receive loop of established sessions with the packet     *)
(* tasks it creates.  SpecLoopFair adds what the event loop guarantees: a  *)
(* coroutine whose await has returned is resumed, and a created task is    *)
(* run.                                                                    *)
(***************************************************************************)
NextLoop ==
    \/ \E c \in Connections : Sess(listen(c))
    \/ \E c \in Connections, msg \in MsgTypes : Sess(Receive(c, msg))
    \/ \E c \in Connections : Sess(PacketEmit(c))
    \/ \E c \in Connections : Sess(ListenEmit(c))

SpecLoop == Init /\ [][NextLoop]_vars
SpecLoopFair ==
    /\ Init
    /\ [][NextLoop]_vars
    /\ \A c \in Connections : WF_vars(Sess(ListenEmit(c)))
    /\ \A c \in Connections : WF_vars(Sess(PacketEmit(c)))

(***************************************************************************)
(* SpecEcho.  A client table registers and unregisters proxy callbacks and *)
(* receives proxy packets for its own and for another table.               *)
(***************************************************************************)
Cli(A) == A /\ UNCHANGED <<tableVars, histVars, regVars, sessVars>>
EchoItems ==
    ItemDicts({"k1"}, Vals, 1) \cup {<<<<"k1", v>>, <<"k2", w>>>> : v, w \in Vals}
\* the n-th packet received carries key n
EchoPackets ==
    {[id |-> id, key |-> client.echoes + 1, items |-> Encoded(d)] :
        id \in TableIds, d \in EchoItems}

NextEcho ==
    \/ \E cb \in Callbacks : Cli(proxy_register(cb))
    \/ \E cb \in Callbacks : Cli(proxy_unregister(cb))
    \/ \E packet \in EchoPackets : Cli(_on_proxy(packet))
    \/ Cli(ProxyReturn)

SpecEcho == Init /\ [][NextEcho]_vars

(***************************************************************************)
(* SpecCoherence.  One caller reads the table while another writes it.     *)
(***************************************************************************)
CoherenceItems == ItemDicts({"k1", "k2"}, {1}, 1)
CoherenceKeyLists == KeyLists({"k1", "k2"}, MaxItems)

NextCoherence ==
    \/ \E items \in CoherenceItems : Tbl(add("t2", items))
    \/ \E keys \in CoherenceKeyLists : Tbl(remove("t2", keys))
    \/ Tbl(clear("t2"))
    \/ Tbl(RemoveRead("t2"))
    \/ Tbl(RemoveDone("t2"))
    \/ Tbl(Notify("t2"))
    \/ \E key \in {"k1", "k2"} : Tbl(get("t1", key))
    \/ \E keys \in CoherenceKeyLists : Tbl(get_all("t1", keys))
    \/ Tbl(GetRead("t1"))
    \/ Tbl(GetAllRead("t1"))
    \/ IsNone(cache_size) /\ Tbl(set_config(Some(MaxCacheSize)))
    \/ Tbl(attach_session("s1"))

SpecCoherence == Init /\ [][NextCoherence]_vars

(***************************************************************************)
(* SpecIterate.  A table is filled and then iterated on the server, with   *)
(* cache_size unset or set.                                                *)
(***************************************************************************)
IterateItems == ItemDicts(Keys, {1}, 1)

NextIterate ==
    \/ \E items \in IterateItems : Tbl(add("t1", items))
    \/ Tbl(Notify("t1"))
    \/ \E n \in 1..MaxCacheSize : IsNone(cache_size) /\ Tbl(set_config(Some(n)))
    \/ Tbl(iterate("t1"))
    \/ \E as_after \in IllTyped : Tbl(IterateFetched("t1", as_after))

SpecIterate == Init /\ [][NextIterate]_vars

(***************************************************************************)
(* SpecScan.  A table is filled on the server and then iterated by a       *)
(* client, forward or backward, with a chunk size below, at or above the   *)
(* number of items.                                                        *)
(***************************************************************************)
ScanItems == ItemDicts(Keys, {1}, 1)

NextScan ==
    \/ \E items \in ScanItems : client.it.pc = "idle" /\ Tbl(add("t1", items))
    \/ Tbl(Notify("t1"))
    \/ \E backward \in BOOLEAN, chunk \in 1..MaxChunkSize :
          Free("t1") /\ Cli(client_iterate(backward, chunk))
    \/ Cli(ClientFetched)

SpecScan == Init /\ [][NextScan]_vars

(***************************************************************************)
(* Properties                                                              *)
(***************************************************************************)

\* C1: with cache_size a positive integer n, the cache holds at most n
\* entries in every reachable state.
C1_CacheWithinSize ==
    CacheEnabled(cache_size) => Len(cache) <= Value(cache_size)

\* C2: adapter.set_all is called at most once per item_add (and only once
\* the last proxy has echoed): the set_all calls that persist adds never
\* outnumber the add() calls.
C2_SetAllOncePerAdd == n_persist <= n_add

\* C3: a proxy packet goes to one session only: for an item_add, the first
\* session of the chain; otherwise it is sent while a proxy packet
\* from the app at chain position k is handled, to the session at k + 1.
ProxySends(t) == SelectSeq(NewEvents(t), LAMBDA e : e.call = "send_proxy")
CallsOf(tr, call) == SelectSeq(tr, LAMBDA e : e.call = call)
Position(seq, x) == CHOOSE i \in DOMAIN seq : seq[i] = x
AddFanoutOk(tk) ==
    LET tr == tk.trace
        notified == [i \in DOMAIN CallsOf(tr, "on_add") |-> CallsOf(tr, "on_add")[i].who]
        n == Len(notified)
    IN /\ Len(tr) >= n + 3
       /\ tr[1] = Ev("set_all", "-", tk.items, 0)
       /\ \A i \in 1..n : tr[i + 1] = Ev("on_add", notified[i], tk.items, 0)
       /\ tr[n + 2] = Ev("update_cache", "-", tk.items, 0)
       /\ \A i \in (n + 3)..(Len(tr) - 1) : tr[i].call = "on_cache_update"
       /\ tr[Len(tr)] = Ev("mark_changed", "-", <<>>, 0)
       \* every listener attached during the whole add is notified
       /\ \A s \in Range(tk.att) \cap Range(listeners) : s \in Range(notified)
       \* once each, in registration order
       /\ \A i, j \in 1..n : i < j =>
             /\ notified[i] # notified[j]
             /\ notified[j] \in Range(tk.att) => notified[i] \in Range(tk.att)
             /\ (notified[i] \in Range(tk.att) /\ notified[j] \in Range(tk.att))
                   => Position(tk.att, notified[i]) < Position(tk.att, notified[j])
C6_AddWithoutProxies ==
    \A t \in Tasks :
        (task[t].op = "add" /\ task[t].pc = "done" /\ Len(proxy_sessions) = 0)
            => AddFanoutOk(task[t])

\* an add has finished on a table without proxies, and an open listener that
\* was attached from the call to the end of the add was never given on_add
C6_ListenerSkipped ==
    \E t \in Tasks :
        /\ task[t].op = "add" /\ task[t].pc = "done" /\ Len(proxy_sessions) = 0
        /\ \E s \in Range(task[t].att) \cap Range(listeners) :
              /\ ~closed[s]
              /\ CallsOf(task[t].trace, "on_add") # <<>>
              /\ \A i \in DOMAIN task[t].trace :
                    ~(task[t].trace[i].call = "on_add" /\ task[t].trace[i].who = s)
\* C7: with cache_size = n > 0 set before any insertion, after single-item
\* adds of pairwise distinct keys the cache holds exactly the last
\* min(n, number of adds) keys in insertion order, and the add has called
\* on_cache_update once on every listener with that cache.
LastKeys(keys, n) == SubSeq(keys, Len(keys) - Min(n, Len(keys)) + 1, Len(keys))
C7_CacheKeepsLastKeys ==
    (task["t1"].op = "add" /\ task["t1"].pc = "done" /\ CacheEnabled(cache_size)) =>
        LET updates == CallsOf(task["t1"].trace, "on_cache_update")
        IN /\ KeySeq(cache) = LastKeys(added, Value(cache_size))
           /\ \A i \in DOMAIN updates : updates[i].arg = cache
           /\ \A i, j \in DOMAIN updates : updates[i].who = updates[j].who => i = j
           /\ Range(task["t1"].att) \subseteq {updates[i].who : i \in DOMAIN updates}
           /\ {updates[i].who : i \in DOMAIN updates} \subseteq Range(listeners)
\* the third add into a cache of size 2 has evicted the first key
C7_Evicted ==
    /\ task["t1"].op = "add"
    /\ task["t1"].pc = "done"
    /\ cache_size = Some(2)
    /\ Len(added) = 3
    /\ KeySeq(cache) = <<added[2], added[3]>>
    /\ Len(CallsOf(task["t1"].trace, "on_cache_update")) = 2

\* C8: whenever mark_changed() has been called and no save task is running,
\* a save task is started: while the table is marked changed, a save task
\* that has not exited exists (and will call adapter.store()).
LiveSavers == {n \in DOMAIN savers : savers[n] \notin {"exited", "failed"}}
C8_SaveTaskRuns == changed => LiveSavers # {}

\* C9: at most one save task runs at a time, every update calls
\* adapter.set_all at once, store() calls never outnumber the mark_changed()
\* calls, and the updates are followed by a store(): a table marked
\* changed has a save task that will call it.
UpdateIsEager(tk) ==
    (tk.op = "update" /\ tk.pc \in {"notify", "done"}) =>
        /\ Len(CallsOf(tk.trace, "set_all")) = 1
        /\ tk.trace[1] = Ev("set_all", "-", tk.items, 0)
C9_SaveCoalesces ==
    /\ Cardinality(LiveSavers) <= 1
    /\ \A t \in Tasks : UpdateIsEager(task[t])
    /\ n_store <= n_mark
    /\ (n_mark > 0 /\ changed) => \E n \in LiveSavers : savers[n] \in {"ready", "storing", "sleeping"}

(***************************************************************************)
(* C4: a session that does not own a registry updates it only when it      *)
(* holds the registry's `all` or `write` permission, and listens to or     *)
(* reads it only when it holds `all` or `read`; otherwise the handler      *)
(* raises PermissionDenied and leaves the registry's value, its storage    *)
(* and its listeners as they were.  With no relevant field set the         *)
(* non-owner is always denied.                                             *)
(***************************************************************************)
RequiredFields(op, permissions) ==
    IF op = "update" THEN {permissions.all, permissions.write}
    ELSE {permissions.all, permissions.read}
Holds(session, fields) ==
    \E f \in fields : ~IsNone(f) /\ has_permission(session, Value(f))
DataOf(regs, id) == IF Exists(regs, id) THEN Registry(regs, id).data ELSE storage[id]
ListenersOf(regs, id) == IF Exists(regs, id) THEN Registry(regs, id).sessions ELSE {}
IsAccess(r) == r.op \in {"update", "listen", "get"}
Owner(r) == is_subpart_of(r.id, AppId(r.session))
C4_AccessControlStep ==
    LET r == resp'
        fields == RequiredFields(r.op, Registry(registries', r.id).permissions)
    IN (IsAccess(r) /\ ~Owner(r)) =>
          /\ r.result = "ok" <=> Holds(r.session, fields)
          /\ r.result = "denied" =>
                /\ DataOf(registries', r.id) = DataOf(registries, r.id)
                /\ ListenersOf(registries', r.id) = ListenersOf(registries, r.id)
                /\ storage' = storage
C4_AccessControl == [][C4_AccessControlStep]_vars
\* a non-owner is denied on a registry with no permission field set, and a
\* non-owner holding the write permission has updated a registry
C4_Denied ==
    /\ resp.op = "update" /\ resp.result = "denied" /\ ~Owner(resp)
    /\ Registry(registries, resp.id).permissions = NoPermissions
C4_Granted ==
    /\ resp.op = "update" /\ resp.result = "ok" /\ ~Owner(resp)
    /\ Registry(registries, resp.id).permissions.write = Some(PermWrite)
    /\ Registry(registries, resp.id).data = 2
    /\ storage[resp.id] = 2

(***************************************************************************)
(* C5: a session whose app id is an ancestor of the registry's id passes   *)
(* every access check, whatever the registry's permissions and whatever    *)
(* the session has been granted.                                           *)
(***************************************************************************)
C5_OwnerBypass == (IsAccess(resp) /\ Owner(resp)) => resp.result = "ok"
C5_OwnerWithoutGrants ==
    /\ resp.op = "update" /\ resp.result = "ok" /\ Owner(resp)
    /\ grants[resp.session] = {}
    /\ Registry(registries, resp.id).permissions = NoPermissions
    /\ storage[resp.id] = 1

(***************************************************************************)
(* C10: `disconnected` fires exactly once per session, however the receive *)
(* loop ends and however often disconnect() is called: never twice, and    *)
(* once when the receive loop has ended.                                   *)
(***************************************************************************)
C10_DisconnectedOnce ==
    \A c \in Connections :
       /\ emitted[c] <= 1
       /\ loop[c] = "done" => emitted[c] = 1
\* disconnect() was called once, the receive loop then ended, and the event
\* has fired twice
C10_FiresTwice ==
    \E c \in Connections :
       /\ disc[c] = <<"done">>
       /\ loop[c] = "done"
       /\ emitted[c] = 2

(***************************************************************************)
(* C11: when a session's disconnection is handled, the table keeps no      *)
(* reference to it: its listener leaves the listener list, it leaves the   *)
(* attached-session map, and its app's entry leaves the proxy chain.       *)
(***************************************************************************)
ChainSessions(chain) == Range(ValSeq(chain))
Detached(s) == s \in sessions /\ s \notin sessions'
C11_NoReferenceLeftStep ==
    \A s \in Sessions :
        Detached(s) =>
            /\ s \notin Range(listeners')
            /\ s \notin ChainSessions(proxy_sessions')
C11_NoReferenceLeft == [][C11_NoReferenceLeftStep]_vars

(***************************************************************************)
(* C12: once a session has disconnected while holding a proxy packet it    *)
(* had not echoed, that add is abandoned: no later step calls              *)
(* adapter.set_all or on_add for that proxy packet.                        *)
(***************************************************************************)
Persists(t) ==
    \E i \in DOMAIN NewEvents(t) : NewEvents(t)[i].call \in {"set_all", "on_add"}
C12_AbandonedStep ==
    \A t \in Tasks :
        (task'[t].op = "proxy" /\ <<task'[t].key, task'[t].items>> \in outstanding.dropped)
            => ~Persists(t)
C12_AbandonedAddStaysDropped == [][C12_AbandonedStep]_vars
\* the app of a session that dropped a packet is back with another session,
\* and the dropped packet has been persisted and announced
C12_PersistedAfterReconnect ==
    /\ closed["s1"] /\ ~closed["s3"]
    /\ proxy_sessions = <<<<"a", "s3">>>>
    /\ task["t1"].op = "proxy" /\ task["t1"].who = "s3" /\ task["t1"].pc = "done"
    /\ <<task["t1"].key, task["t1"].items>> \in outstanding.dropped
    /\ \E i \in DOMAIN task["t1"].trace :
          task["t1"].trace[i] = Ev("on_add", "s2", task["t1"].items, 0)

(***************************************************************************)
(* C13: when an adapter call of a table operation raises, the operation    *)
(* ends with that error, has fired no listener callback, leaves the cache  *)
(* as it was, and has not cleared the dirty flag.                          *)
(***************************************************************************)
ListenerEvents == {"on_add", "on_update", "on_remove", "on_clear", "on_cache_update"}
FailsNow(t) == task'[t].pc = "failed" /\ (task[t].pc # "failed" \/ task'[t].id # task[t].id)
StoreFailsNow(n) == n \in DOMAIN savers /\ savers[n] = "storing" /\ savers'[n] = "failed"
C13_AdapterFailureStep ==
    /\ \A t \in Tasks :
          FailsNow(t) =>
              /\ \A i \in DOMAIN task'[t].trace : task'[t].trace[i].call \notin ListenerEvents
              /\ cache' = cache
              /\ changed' = changed
    \* store() runs only with the flag set: the flag is still set when it fails
    /\ \A n \in 1..MaxOps : StoreFailsNow(n) => changed'
C13_AdapterFailure == [][C13_AdapterFailureStep]_vars
\* the only save task has died in adapter.store(), and the table counts as clean
C13_FlagLostInStore ==
    /\ savers = <<"failed">>
    /\ ~changed
    /\ adapter # <<>>

(***************************************************************************)
(* C14: unless the first frame of a connection is a binary frame of type   *)
(* "connect", create fails: authenticate_app is not called, no token       *)
(* packet is written and no session exists.                                *)
(***************************************************************************)
C14_HandshakeGate ==
    \A c \in Connections :
        (hs[c].first # <<>> /\ hs[c].first # Frame("BINARY", "connect")) =>
            /\ hs[c].pc = "failed"
            /\ hs[c].auth = 0
            /\ frames[c] = <<>>
            /\ loop[c] = "new"
\* one connection was refused for a text frame, another for a packet of
\* another type, with no frame written to either
C14_Refused ==
    /\ hs["c1"] = [pc |-> "failed", first |-> Frame("TEXT", "-"), auth |-> 0]
    /\ hs["c2"] = [pc |-> "failed", first |-> Frame("BINARY", "other"), auth |-> 0]
    /\ frames = [c \in Connections |-> <<>>]

(***************************************************************************)
(* C15: when an established session receives a protocol-violating frame    *)
(* (text, empty, malformed binary), a `disconnect` packet is written to    *)
(* it before its socket is closed.                                         *)
(***************************************************************************)
Violations == {"TEXT", "EMPTY", "MALFORMED"}
ViolationNow(c) ==
    /\ loop[c] = "receive"
    /\ loop'[c] = "emit"
    /\ io'[c].msg \in Violations
C15_DisconnectPacketStep ==
    \A c \in Connections :
        ViolationNow(c) => frames'[c] = Append(frames[c], "disconnect")
C15_DisconnectPacketFirst == [][C15_DisconnectPacketStep]_vars
\* a session ended by a text frame: socket closed, event emitted, and no
\* disconnect packet was ever written
C15_ClosedWithoutNotice ==
    \E c \in Connections :
        /\ io[c].msg = "TEXT"
        /\ loop[c] = "done"
        /\ sock[c] = "closed"
        /\ "disconnect" \notin Range(frames[c])

(***************************************************************************)
(* C16: a send on a closed socket raises and writes no frame; no frame is  *)
(* written to a socket once it is closed.                                  *)
(***************************************************************************)
SendNow(c) == io'[c].sends = io[c].sends + 1
C16_ClosedSendStep ==
    \A c \in Connections :
        sock[c] = "closed" =>
            /\ frames'[c] = frames[c]
            /\ SendNow(c) => io'[c].send = "ValueError"
C16_ClosedSendFails == [][C16_ClosedSendStep]_vars
\* a send was refused after the session's disconnect had completed
C16_RefusedAfterDisconnect ==
    \E c \in Connections :
        /\ loop[c] = "done"
        /\ emitted[c] >= 1
        /\ io[c].send = "ValueError"
        /\ frames[c] = <<"token", "data">>

(***************************************************************************)
(* C17: handle_register installs the packet's permissions exactly when the *)
(* registry id is a subpart of the session's app id; for any other session *)
(* it raises PermissionDenied and the permissions stay as they were.       *)
(***************************************************************************)
PermissionsOf(regs, id) ==
    IF Exists(regs, id) THEN Registry(regs, id).permissions ELSE NoPermissions
C17_RegisterStep ==
    LET r == resp'
    IN r.op = "register" =>
          /\ r.result = "ok" <=> is_subpart_of(r.id, AppId(r.session))
          /\ r.result = "ok" => PermissionsOf(registries', r.id) = r.arg[1]
          /\ r.result = "denied" =>
                PermissionsOf(registries', r.id) = PermissionsOf(registries, r.id)
          /\ DataOf(registries', r.id) = DataOf(registries, r.id)
          /\ ListenersOf(registries', r.id) = ListenersOf(registries, r.id)
C17_RegisterOwnerOnly == [][C17_RegisterStep]_vars
\* a session of another app was denied, and the permissions the owner had
\* installed are still in place
C17_DeniedKeepsPermissions ==
    /\ resp.op = "register" /\ resp.result = "denied"
    /\ resp.arg = <<NoPermissions>>
    /\ PermissionsOf(registries, resp.id).write = Some(PermWrite)

(***************************************************************************)
(* C18: a successful handle_update by session W replaces the registry's    *)
(* value and sends the update packet to every attached session except W.   *)
(***************************************************************************)
C18_UpdateStep ==
    LET r == resp'
    IN (r.op = "update" /\ r.result = "ok") =>
          /\ DataOf(registries', r.id) = r.arg[1]
          /\ recipients' = ListenersOf(registries', r.id) \ {r.session}
C18_UpdateSkipsWriter == [][C18_UpdateStep]_vars
\* the writer listens to the registry it updates, and was sent its own update
C18_WriterNotified ==
    /\ resp.op = "update" /\ resp.result = "ok"
    /\ resp.session \in ListenersOf(registries, resp.id)
    /\ resp.session \in recipients

(***************************************************************************)
(* C19: while cache_size is unset, the cache holds every item that was     *)
(* added, updated or fetched and not removed or cleared since: between     *)
(* operations, every item of the adapter that was written or read is in    *)
(* the cache with its value.                                               *)
(***************************************************************************)
Cached(items) ==
    \A i \in DOMAIN items : DictHas(cache, items[i][1]) /\ DictVal(cache, items[i][1]) = items[i][2]
C19_UnsizedCacheKeepsAll ==
    (IsNone(cache_size) /\ task["t1"].pc = "done"
        /\ task["t1"].op \in {"add", "update", "get", "get_all"})
            => Cached(task["t1"].items)
\* with cache_size unset, an add has completed and a get has fetched the
\* item from the adapter, and the cache is still empty
C19_NothingCached ==
    /\ IsNone(cache_size)
    /\ task["t1"].op = "get" /\ task["t1"].pc = "done"
    /\ task["t1"].items # <<>>
    /\ adapter = task["t1"].items
    /\ cache = <<>>

(***************************************************************************)
(* C20: size returns the number of items the adapter holds, whatever the   *)
(* state of the cache.                                                     *)
(***************************************************************************)
C20_SizeStep ==
    \A t \in Tasks : Started(t, "size") => task'[t].key = Len(adapter)
C20_SizeIsAdapterCount == [][C20_SizeStep]_vars
\* size has returned 0 for a table whose adapter holds two items
C20_SizeOfEmptyCache ==
    /\ task["t1"].op = "size" /\ task["t1"].pc = "done"
    /\ task["t1"].key = 0
    /\ Len(adapter) = 2

(***************************************************************************)
(* C21: the keys persisted and announced by on_add at the end of a proxy   *)
(* chain are a subset of the keys of the original add: a proxy may drop    *)
(* keys or rewrite values, and never introduces a key.                     *)
(***************************************************************************)
Announced(t) ==
    LET evs == SelectSeq(NewEvents(t), LAMBDA e : e.call \in {"set_all", "on_add"})
    IN UNION {DictKeys(evs[i].arg) : i \in DOMAIN evs}
C21_NoNewKeysStep ==
    \A t \in Tasks :
        (task'[t].op = "proxy" /\ Announced(t) # {})
            => \E orig \in OriginsOf(task'[t].who, task'[t].key) : Announced(t) \subseteq orig
C21_NoNewKeys == [][C21_NoNewKeysStep]_vars
\* the only proxy of the chain was sent the add of k1, answered with k2, and
\* k2 has been stored and announced to the listener
C21_NewKeyPersisted ==
    /\ task["t1"].op = "proxy" /\ task["t1"].pc = "done"
    /\ OriginsOf(task["t1"].who, task["t1"].key) = {{"k1"}}
    /\ DictHas(adapter, "k2")
    /\ \E i \in DOMAIN task["t1"].trace :
          /\ task["t1"].trace[i].call = "on_add"
          /\ DictKeys(task["t1"].trace[i].arg) = {"k2"}

(***************************************************************************)
(* C22: the proxy chain lists the connected proxy sessions in the order in *)
(* which they issued TABLE_PROXY_LISTEN, also after disconnects, a         *)
(* reconnect of an app and with two sessions of one app.                   *)
(***************************************************************************)
Connected(seq) == SelectSeq(seq, LAMBDA x : ~closed[x])
C22_ChainInListenOrder ==
    Connected(ValSeq(proxy_sessions)) = Connected(listen_order)
\* s1 then s2 listened, s1 disconnected and its app came back as s3: s3
\* listened last and stands first in the chain
C22_ReconnectJumpsQueue ==
    /\ listen_order = <<"s1", "s2", "s3">>
    /\ closed["s1"] /\ ~closed["s2"] /\ ~closed["s3"]
    /\ ValSeq(proxy_sessions) = <<"s3", "s2">>

(***************************************************************************)
(* C23: reading `permissions` of a session or connection terminates and    *)
(* returns the permission set stored at construction.                      *)
(***************************************************************************)
C23_AccessorReturnsStored ==
    \A c \in Connections : io[c].perm \in {"-", io[c].stored}
\* a read of c1's permissions has ended in RecursionError
C23_AccessorOverflows ==
    /\ io["c1"].depth = 0
    /\ io["c1"].perm = "RecursionError"
    /\ io["c1"].stored \in StoredPermissions

(***************************************************************************)
(* C24: a registry made by register() is loaded by the time the server has *)
(* started, and a registry handed out by register() or get() is loaded     *)
(* before its value is read, whenever register() was called.               *)
(***************************************************************************)
ReadsValue(id) == resp' # resp /\ resp'.op = "get" /\ resp'.result = "ok" /\ resp'.id = id
C24_LoadedBeforeReadStep ==
    \A id \in RegIds : ReadsValue(id) => Registry(registries', id).loaded
C24_LoadedBeforeRead == [][C24_LoadedBeforeReadStep]_vars
\* handle_get has answered with the value of a registry that register()
\* made after server start and that was never loaded
C24_ReadUnloaded ==
    /\ boot.phase = "started"
    /\ resp.op = "get" /\ resp.result = "ok"
    /\ Exists(registries, resp.id)
    /\ ~Registry(registries, resp.id).loaded
    /\ boot.startup = <<resp.id>>

(***************************************************************************)
(* C25: an add sent through the chain is allocated a proxy_id greater than *)
(* every earlier one of the table, and every proxy packet forwarded for    *)
(* that add carries that proxy_id, also while other adds are allocated     *)
(* ids.                                                                    *)
(***************************************************************************)
SentProxy(t) == SelectSeq(NewEvents(t), LAMBDA e : e.call = "send_proxy")
C25_ProxyIdStep ==
    \A t \in Tasks : \A i \in DOMAIN SentProxy(t) :
        /\ Started(t, "add") => SentProxy(t)[i].key > proxy_id
        /\ Started(t, "proxy") => SentProxy(t)[i].key = task'[t].key
C25_ProxyIdCarried == [][C25_ProxyIdStep]_vars
\* the first proxy answered the packet of add 1 after add 2 had been
\* allocated, and the packet forwarded to the second proxy carries id 2
C25_ForwardedUnderLaterId ==
    /\ task["t1"].op = "proxy" /\ task["t1"].pc = "done"
    /\ task["t1"].key = 1
    /\ proxy_id = 2
    /\ \E i \in DOMAIN task["t1"].trace :
          /\ task["t1"].trace[i].call = "send_proxy"
          /\ task["t1"].trace[i].key = 2

(***************************************************************************)
(* C26: the save task clears the dirty flag before it calls                *)
(* adapter.store(); a mark_changed() during store() or during the sleep    *)
(* leaves the flag set and starts no second task, so that the same task    *)
(* calls store() again after the sleep; the task exits only when it finds  *)
(* the flag unset after a sleep.                                           *)
(***************************************************************************)
Busy(n) == savers[n] \in {"storing", "sleeping"}
C26_PreClearStep ==
    /\ \A n \in DOMAIN savers :
          /\ (savers[n] # "storing" /\ savers'[n] = "storing") => ~changed'
          /\ (savers[n] = "storing" /\ savers'[n] = "sleeping") => changed' = changed
          /\ (savers[n] = "sleeping" /\ savers'[n] # "sleeping") =>
                savers'[n] = (IF changed THEN "storing" ELSE "exited")
          /\ (savers[n] # "exited" /\ savers'[n] = "exited") =>
                (savers[n] = "sleeping" /\ ~changed)
    /\ \A t \in Tasks :
          (NewCalls(t, "mark_changed") > 0 /\ \E n \in DOMAIN savers : Busy(n))
              => (changed' /\ savers' = savers /\ save_task' = save_task)
C26_PreClear == [][C26_PreClearStep]_vars
\* the one save task is in its second store(): the table was marked again
\* after the first store() had begun
C26_StoresAgain ==
    /\ savers = <<"storing">>
    /\ n_store = 2
    /\ n_mark = 2
    /\ ~changed

(***************************************************************************)
(* C27: every change of the cache content (insertion or eviction in        *)
(* update_cache, removal of keys in remove, emptying in clear) comes with  *)
(* an on_cache_update call with the full new cache on every listener.      *)
(***************************************************************************)
C27_ChangeAnnounced ==
    cache_log.after # cache_log.before => cache_log.told = cache_log.att
\* remove has taken k1 out of the cache of a table with a listener, and no
\* on_cache_update was called
C27_SilentRemove ==
    /\ cache_log.op = "remove"
    /\ DictHas(cache_log.before, "k1") /\ ~DictHas(cache_log.after, "k1")
    /\ cache_log.att = <<"s1">>
    /\ cache_log.told = <<>>
    /\ task["t1"].op = "remove" /\ task["t1"].pc = "done"

(***************************************************************************)
(* C28: when cache_size has been lowered to n while the cache holds more   *)
(* than n entries, the next insertion into the cache truncates it: the     *)
(* cache holds at most n entries afterwards.                               *)
(***************************************************************************)
Inserts(t) == NewCalls(t, "update_cache") > 0
C28_ShrinkStep ==
    \A t \in Tasks :
        (Inserts(t) /\ CacheEnabled(cache_size) /\ Len(cache) > Value(cache_size))
            => Len(cache') <= Value(cache_size)
C28_ShrinkOnInsert == [][C28_ShrinkStep]_vars
\* an add has inserted into a cache of two entries with cache_size 1, and
\* the cache holds two entries afterwards
C28_StillOversized ==
    /\ cache_log.op = "add"
    /\ cache_log.size = Some(1)
    /\ Len(cache_log.before) = 2
    /\ Len(cache_log.after) = 2
    /\ cache = cache_log.after
    /\ cache_size = Some(1)

(***************************************************************************)
(* C29: get_all(keys) returns the cached entries of the keys found in the  *)
(* cache together with the adapter's entries for exactly the other keys;   *)
(* keys found in neither are absent; the adapter is not called when every  *)
(* key is a cache hit; update_cache receives the adapter-fetched items.    *)
(***************************************************************************)
AsMap(d) == {<<d[i][1], d[i][2]>> : i \in DOMAIN d}
Wanted(keys, d) == {e \in AsMap(d) : e[1] \in Range(keys)}
Unhit(keys) == SelectSeq(keys, LAMBDA k : ~DictHas(cache, k))
GetAllCalled(t) ==
    LET tk == task'[t]
    IN /\ AsMap(tk.items) = Wanted(tk.keys, cache)
       /\ IF Unhit(tk.keys) = <<>>
          THEN tk.pc = "done" /\ NewEvents(t) = <<>>
          ELSE /\ tk.pc = "read"
               /\ NewEvents(t) = <<Ev("get_all", "-", Unhit(tk.keys), 0)>>
               /\ AsMap(tk.data) = Wanted(Unhit(tk.keys), adapter)
GetAllReturned(t) ==
    LET tk == task'[t]
    IN /\ tk.pc = "done"
       /\ AsMap(tk.items) = AsMap(task[t].items) \cup AsMap(task[t].data)
       /\ \E i \in DOMAIN NewEvents(t) :
             /\ NewEvents(t)[i].call = "update_cache"
             /\ AsMap(task[t].data) \subseteq AsMap(NewEvents(t)[i].arg)
       /\ (CacheEnabled(cache_size) /\ task[t].data # <<>>) =>
             LET newest == task[t].data[Len(task[t].data)]
             IN DictHas(cache', newest[1]) /\ DictVal(cache', newest[1]) = newest[2]
C29_GetAllStep ==
    \A t \in Tasks :
        /\ Started(t, "get_all") => GetAllCalled(t)
        /\ (task[t].op = "get_all" /\ task[t].pc = "read" /\ task'[t] # task[t])
              => GetAllReturned(t)
Gone(keys, d) == \A i \in DOMAIN keys : ~DictHas(d, keys[i])
Told(tk, call) == {e.who : e \in {x \in Range(tk.trace) : x.call = call /\ x.arg = tk.data}}
\* the adapter calls of remove, in order, with the values read first
RemoveReadsFirst(t) ==
    /\ Started(t, "remove") =>
          /\ NewEvents(t) = <<Ev("get_all", "-", task'[t].keys, 0)>>
          /\ AsMap(task'[t].data) = Wanted(task'[t].keys, adapter)
    /\ (task[t].op = "remove" /\ task[t].pc = "read" /\ task'[t].pc = "removing") =>
          /\ NewEvents(t) = <<Ev("remove_all", "-", task[t].keys, 0)>>
          /\ Gone(task[t].keys, adapter')
\* remove returns: the keys are gone and every listener has been told
RemoveReturns(t) ==
    (task[t].op = "remove" /\ task[t].pc # "done" /\ task'[t].pc = "done") =>
        /\ Gone(task[t].keys, cache') /\ Gone(task[t].keys, adapter')
        /\ \A i \in DOMAIN task'[t].trace :
              task'[t].trace[i].call = "on_remove" => task'[t].trace[i].arg = task[t].data
        /\ Range(task[t].att) \cap Range(listeners') \subseteq Told(task'[t], "on_remove")
C30_RemoveStep == \A t \in Tasks : RemoveReadsFirst(t) /\ RemoveReturns(t)
C30_RemoveReports == [][C30_RemoveStep]_vars
\* the same for the removes during which no listener joined or left
C30_RemoveReportsUndisturbed ==
    [][\A t \in Tasks : task[t].att = listeners' => (RemoveReadsFirst(t) /\ RemoveReturns(t))]_vars
\* remove has returned, s1 was told of the removal, and s2, listening and
\* connected from the call to the return, was not
C30_RemovalUntold ==
    /\ task["t1"].op = "remove" /\ task["t1"].pc = "done"
    /\ task["t1"].data # <<>>
    /\ task["t1"].att = <<"s1", "s2">>
    /\ "s2" \in Range(listeners) /\ ~closed["s2"]
    /\ Told(task["t1"], "on_remove") = {"s1"}

(***************************************************************************)
(* C31: update, remove and clear never send a proxy packet and never wait  *)
(* for a proxy: with any number of proxy sessions they persist through     *)
(* the adapter and notify the listeners at once; only add is diverted.     *)
(***************************************************************************)
Direct == {"update", "remove", "clear"}
FirstCall(op) ==
    CASE op = "update" -> "set_all" [] op = "remove" -> "get_all" [] OTHER -> "clear"
C31_BypassStep ==
    \A t \in Tasks :
        /\ task'[t].op \in Direct =>
              /\ NewCalls(t, "send_proxy") = 0
              /\ proxy_id' = proxy_id
        /\ \E op \in Direct : Started(t, op) =>
              /\ task'[t].pc \in {"notify", "read"}
              /\ task'[t].trace[1].call = FirstCall(task'[t].op)
        /\ (task[t].op \in Direct /\ task[t].pc # "done" /\ task'[t].pc = "done") =>
              /\ \A k \in DictKeys(task[t].items) : DictHas(adapter', k)
              /\ \A k \in Range(task[t].keys) : ~DictHas(adapter', k)
              /\ task[t].op = "clear" => adapter' = <<>>
              /\ Range(listeners') \subseteq
                    {e.who : e \in {x \in Range(task'[t].trace) :
                                       x.call = ListenerCall(task[t].op)}}
        /\ (Started(t, "add") /\ Len(proxy_sessions) > 0) =>
              /\ NewCalls(t, "send_proxy") = 1
              /\ NewCalls(t, "set_all") = 0
C31_OnlyAddDiverted == [][C31_BypassStep]_vars
\* with two proxy sessions in the chain an update has stored its item and
\* told the listener, and no proxy_id was allocated
C31_UpdatePastProxies ==
    /\ Len(proxy_sessions) = 2
    /\ task["t1"].op = "update" /\ task["t1"].pc = "done"
    /\ task["t1"].att = <<"s3">>
    /\ AsMap(task["t1"].items) \subseteq AsMap(adapter)
    /\ Told(task["t1"], "on_update") = {}
    /\ CallsOf(task["t1"].trace, "on_update") # <<>>
    /\ proxy_id = 0

(***************************************************************************)
(* C32: whenever a session's receive loop ends, by the peer's close frame  *)
(* or by any receive error, the socket is closed and `disconnected` is     *)
(* eventually emitted with that session; every packet received before the  *)
(* end is handed to the packet listeners, in arrival order.                *)
(***************************************************************************)
LoopEnded(c) == loop[c] \in {"emit", "done"}
InArrivalOrder(c) == \A i \in DOMAIN io[c].handed : io[c].handed[i] = i
C32_LoopEndHandled ==
    /\ \A c \in Connections : LoopEnded(c) ~> (loop[c] = "done")
    /\ [](\A c \in Connections :
            /\ LoopEnded(c) => sock[c] = "closed"
            /\ loop[c] = "done" => emitted[c] >= 1
            /\ InArrivalOrder(c))
    /\ \A c \in Connections : \A n \in 1..MaxFrames :
          (packets[c] >= n) ~> (n \in Range(io[c].handed))
\* two packets arrived, the socket then failed; the loop has ended, the
\* event was emitted and both packets were handed over in order
C32_EndedByError ==
    /\ io["c1"].msg = "ERROR"
    /\ loop["c1"] = "done"
    /\ sock["c1"] = "closed"
    /\ emitted["c1"] = 1
    /\ packets["c1"] = 2
    /\ io["c1"].handed = <<1, 2>>

(***************************************************************************)
(* C33: a client table that receives a proxy packet for its own table id   *)
(* sends back exactly one proxy packet with the same id and key, whose     *)
(* items are the received items after every registered proxy callback was  *)
(* applied in registration order, an item being dropped when a callback    *)
(* returned None for it; a packet for another table id triggers no send.   *)
(* The packet is keyed by key_function of the items it carries, so items   *)
(* that the callbacks gave the same key are carried as one item, the last. *)
(***************************************************************************)
RECURSIVE ApplyAll(_, _)
ApplyAll(cbs, item) ==
    IF cbs = <<>> THEN item
    ELSE LET r == Call(cbs[1], item)
         IN IF r = None THEN None ELSE ApplyAll(Tail(cbs), r)
\* the received items after the callbacks, the dropped ones left out
Transformed(cbs, packet) ==
    SelectSeq([i \in DOMAIN packet.items |->
                  ApplyAll(cbs, deserialize(packet.items[i][2]))],
              LAMBDA r : r # None)
Carried(packet) == [i \in DOMAIN packet.items |-> deserialize(packet.items[i][2])]
LastWithKey(items, k) ==
    items[CHOOSE i \in DOMAIN items :
             /\ items[i].key = k
             /\ \A j \in DOMAIN items : j > i => items[j].key # k]
\* this step finishes the handling of one packet
Handled == client'.log # client.log
Echo == client'.out[Len(client'.out)]
\* exactly one packet with the id and key received, none for another table
OneEcho ==
    /\ (Handled /\ client'.log.sent) =>
          /\ Len(client'.out) = Len(client.out) + 1
          /\ Echo.id = client'.log.packet.id
          /\ Echo.id = OwnId
          /\ Echo.key = client'.log.packet.key
    /\ ~(Handled /\ client'.log.sent) => client'.out = client.out
    /\ (Handled /\ client'.log.packet.id # OwnId) => ~client'.log.sent
\* callbacks were neither registered nor removed during the handling
Steady == Handled /\ client'.log.sent /\ ~client'.log.touched
C33_EchoStep ==
    /\ OneEcho
    /\ Steady =>
          LET wanted == Transformed(client'.log.at, client'.log.packet)
              items == Echo.items
          IN /\ DictKeys(items) = {e.key : e \in Range(wanted)}
             /\ \A i \in DOMAIN items :
                   /\ items[i][1] = key_function(deserialize(items[i][2]))
                   /\ deserialize(items[i][2]) = LastWithKey(wanted, items[i][1])
             /\ (\A i, j \in DOMAIN wanted : wanted[i].key = wanted[j].key => i = j)
                   => Carried(Echo) = wanted
C33_EveryItemStep ==
    /\ OneEcho
    /\ Steady => Carried(Echo) = Transformed(client'.log.at, client'.log.packet)
C33_TwoItemsSentAsOne ==
    /\ client.log.sent /\ ~client.log.touched
    /\ client.log.at = <<"rekey">>
    /\ Len(client.log.packet.items) = 2
    /\ Len(client.out[Len(client.out)].items) = 1

(***************************************************************************)
(* C34: the cache is coherent with the adapter: whenever no table          *)
(* operation is suspended, every key of the cache is in the adapter with   *)
(* the same value; in particular a get or get_all that missed the cache    *)
(* and waits in the adapter read while a remove or clear of that key       *)
(* completes does not put the removed item back into the cache.            *)
(***************************************************************************)
C34_CacheCoherent == Quiet => AsMap(cache) \subseteq AsMap(adapter)
\* a get has returned the item it read before the remove of its key
\* completed, and left it in the cache of a table that no longer holds it
C34_RemovedItemCached ==
    /\ Quiet
    /\ task["t1"].op = "get" /\ task["t1"].pc = "done"
    /\ task["t2"].op = "remove" /\ task["t2"].pc = "done"
    /\ task["t1"].keys = task["t2"].keys
    /\ DictHas(cache, task["t1"].keys[1])
    /\ ~DictHas(adapter, task["t1"].keys[1])

(***************************************************************************)
(* C35: a registry request rejected with PermissionDenied leaves the set   *)
(* of registries unchanged: no registry entry is created or loaded.        *)
(***************************************************************************)
C35_DeniedStep == resp'.result = "denied" => registries' = registries
C35_DeniedLeavesRegistries == [][C35_DeniedStep]_vars
\* app o/app was denied the register of x/svc/data, and that registry now
\* exists with the stored value loaded; the other registry was never created
C35_DeniedRequestCreated ==
    /\ resp.op = "register" /\ resp.result = "denied"
    /\ resp.session = "r2" /\ resp.id = <<"x", "svc", "data">>
    /\ registries[resp.id] = Some(NewRegistry(resp.id))
    /\ IsNone(registries[<<"o", "app", "reg">>])

(***************************************************************************)
(* C36: a proxy echo from a session whose app key is not in the chain is   *)
(* rejected with an error: nothing is persisted, no listener is notified,  *)
(* no packet is forwarded, and the cache, the dirty flag and proxy_id are  *)
(* unchanged.                                                              *)
(***************************************************************************)
Outsider(s) == AppKey(s) \notin DictKeys(proxy_sessions)
C36_OutsiderStep ==
    \A t \in Tasks :
        (Started(t, "proxy") /\ Outsider(task'[t].who)) =>
            /\ task'[t].pc = "error"
            /\ task'[t].trace = <<>>
            /\ adapter' = adapter
            /\ cache' = cache
            /\ changed' = changed
            /\ proxy_id' = proxy_id
            /\ save_task' = save_task
            /\ proxy_sessions' = proxy_sessions
C36_OutsiderRejected == [][C36_OutsiderStep]_vars
\* s1 is the chain; the echo of s2, of another app, has raised, and its
\* items are not in the table
C36_EchoOfStranger ==
    \E t \in Tasks :
        /\ task[t].op = "proxy" /\ task[t].pc = "error"
        /\ task[t].who = "s2"
        /\ ValSeq(proxy_sessions) = <<"s1">>
        /\ task[t].items # <<>>
        /\ adapter = <<>>
        /\ ~changed

(***************************************************************************)
(* C37: the server's CachedTable.iterate terminates on every finite table  *)
(* and yields every stored item exactly once, in insertion order: it does  *)
(* not fail, yields no item twice, and has yielded the whole table when it *)
(* ends.                                                                   *)
(***************************************************************************)
Iterating(t) == task[t].op = "iterate"
C37_IterateYieldsAll ==
    \A t \in Tasks :
        Iterating(t) =>
            /\ task[t].pc # "failed"
            /\ \A i, j \in DOMAIN task[t].keys : task[t].keys[i] = task[t].keys[j] => i = j
            /\ task[t].pc = "done" => task[t].keys = KeySeq(adapter)
\* a table of two items with cache_size 2: the first chunk was yielded, the
\* second fetch was called with the cursor in the place of `after` and no
\* cursor, and raised
C37_SecondFetchIllTyped ==
    /\ Len(adapter) = 2 /\ cache_size = Some(2)
    /\ Iterating("t1") /\ task["t1"].pc = "failed"
    /\ task["t1"].keys = KeySeq(adapter)
    /\ task["t1"].trace[2].arg = <<Some(2), Some(adapter[2][1]), None>>

(***************************************************************************)
(* C38: the client's TableImpl.iterate terminates on every finite table    *)
(* and yields every item exactly once, forward or backward, whatever the   *)
(* table size relative to the chunk size: no item is yielded twice, and    *)
(* when the generator ends every item of the table has been yielded.       *)
(***************************************************************************)
Times(keys, k) == Len(SelectSeq(keys, LAMBDA x : x = k))
C38_ScanYieldsOnce ==
    /\ \A k \in Keys : Times(client.it.yielded, k) <= 1
    /\ client.it.pc = "done" => Range(client.it.yielded) = DictKeys(adapter)
\* a forward scan in chunks of two over k1, k2: the second fetch was
\* anchored at k1, the first key of the first chunk, and k2 was yielded again
C38_YieldedTwice ==
    /\ KeySeq(adapter) = <<"k1", "k2">>
    /\ ~client.it.backward /\ client.it.chunk = 2
    /\ client.it.pc = "done"
    /\ client.it.yielded = <<"k1", "k2", "k2">>
\* backward scans, and scans in chunks of one, yield every item once
ScanBackwardOnce ==
    (client.it.backward \/ client.it.chunk = 1) =>
        /\ \A k \in Keys : Times(client.it.yielded, k) <= 1
        /\ client.it.pc = "done" => Range(client.it.yielded) = DictKeys(adapter)

====
